---- MODULE Spec2Model ----
(***************************************************************************)
(* A model of the cores of robopoker:                                      *)
(*   - gameplay/showdown.rs   side-pot settlement (Showdown::payouts)      *)
(*   - cards/evaluator.rs     hand evaluator (find_ranking, find_kickers)  *)
(*   - mccfr/profile.rs       MCCFR profile (witness, regret and policy    *)
(*                            update, save and load, sampling, reach)      *)
(*   - mccfr/edge.rs          the u8 and u64 codes of an Edge              *)
(*   - cards/observation.rs   Observation and its i64 code                 *)
(*   - clustering/postgres.rs the river seeding pipeline                   *)
(*   - clustering/layer.rs    k-means (cluster, inner_kmeans)              *)
(*   - engine/seat.rs         the actions a Seat may take                  *)
(* Each core has its own specification (SpecShowdown, SpecEval,            *)
(* SpecProfile, SpecPersist, SpecCorrupt, SpecEdge, SpecObservation,       *)
(* SpecRiver, SpecRiverLive, SpecUploader, SpecSample, SpecCluster,        *)
(* SpecKmeans, SpecReach, SpecSeat); the variables of the other cores      *)
(* stay at their initial values.                                           *)
(***************************************************************************)
EXTENDS Integers, Sequences, FiniteSets, TLC

VARIABLES
    \* gameplay/showdown.rs: struct Showdown and the position inside payouts()
    payouts, next_score, next_stake, prev_stake, sd_pc,
    \* cards/evaluator.rs: Evaluator(Hand) and the results of its two entry points
    hand, ranking, kickers, ev_pc,
    \* mccfr/profile.rs: struct Profile, whether it runs or the message of the
    \* panic that ended it, and the number of update calls made on it
    iterations, strategies, pf_pc, calls,
    \* mccfr/profile.rs, save and From<&str>: the bytes of the dump, the offset of
    \* the reader, the profile read so far and the position in save / load
    file, cursor, loaded, ps_pc,
    \* cards/observation.rs: the Observation built, its i64 as bytes from the
    \* least significant one, the Observation decoded from it and the position
    \* in the round trip
    ob, ob_bits, ob_back, ob_pc,
    \* mccfr/edge.rs: two edges, their codes, the edges decoded from the codes and
    \* the position in the round trip
    ed_edges, ed_codes, ed_back, ed_pc,
    \* clustering/postgres.rs: the next index of each Observer, the live Sender
    \* handles, the pairs queued in the channel, the pairs recv() has returned,
    \* the buffer and the COPY batches of the BatchUploader and its position
    rv_index, rv_senders, rv_chan, rv_received, rv_buffer, rv_batches, rv_pc,
    \* mccfr/profile.rs, the explore functions: the sampling mode, the branches and the head
    \* node given, the state of the process outside the profile (clock,
    \* thread-local entropy), the branches returned, the branches returned by a
    \* second execution and the position
    sx_mode, sx_choices, sx_head, sx_ambient, sx_out, sx_again, sx_pc,
    \* clustering/layer.rs, cluster: the points (histogram, last abstraction), the
    \* centroids (the two histograms of each), the first histograms of the
    \* centroids when the iteration began, the iterations done, the next point
    \* and the position
    km_points, km_kmeans, km_before, km_t, km_i, km_pc,
    \* clustering/layer.rs, inner_kmeans: the items the histograms iterator has
    \* yielded, k, the histograms chosen, the map returned and the position
    ik_iter, ik_k, ik_kmeans, ik_out, ik_pc,
    \* reach: the nodes and edges of a path of the tree, the strategies, the call and its result
    rc_nodes, rc_edges, rc_strat, rc_args, rc_out, rc_pc,
    \* engine/seat.rs: the stack and stake of the Seat, the table_stake and table_stack of the Hand, the build profile, the actions returned and the position
    st_seat, st_head, st_build, st_out, st_pc

sd_vars == <<payouts, next_score, next_stake, prev_stake, sd_pc>>
ev_vars == <<hand, ranking, kickers, ev_pc>>
pf_vars == <<iterations, strategies, pf_pc, calls>>
ps_vars == <<file, cursor, loaded, ps_pc>>
ob_vars == <<ob, ob_bits, ob_back, ob_pc>>
ed_vars == <<ed_edges, ed_codes, ed_back, ed_pc>>
rv_vars == <<rv_index, rv_senders, rv_chan, rv_received, rv_buffer, rv_batches, rv_pc>>
sx_vars == <<sx_mode, sx_choices, sx_head, sx_ambient, sx_out, sx_again, sx_pc>>
km_vars == <<km_points, km_kmeans, km_before, km_t, km_i, km_pc>>
ik_vars == <<ik_iter, ik_k, ik_kmeans, ik_out, ik_pc>>
rc_vars == <<rc_nodes, rc_edges, rc_strat, rc_args, rc_out, rc_pc>>
st_vars == <<st_seat, st_head, st_build, st_out, st_pc>>
vars == <<sd_vars, ev_vars, pf_vars, ps_vars, ob_vars, ed_vars, rv_vars, sx_vars, km_vars, ik_vars, rc_vars, st_vars>>

\* Option<T>: None is the empty sequence, Some(x) the one-element sequence
None == <<>>
Some(x) == <<x>>
IsSome(o) == o # <<>>
Unwrap(o) == o[1]

RECURSIVE SumSeq(_)
SumSeq(s) == IF s = <<>> THEN 0 ELSE Head(s) + SumSeq(Tail(s))

SetMax(S) == CHOOSE x \in S : \A y \in S : y <= x
SetMin(S) == CHOOSE x \in S : \A y \in S : x <= y
MinOf(a, b) == IF a <= b THEN a ELSE b

(***************************************************************************)
(*                      SHOWDOWN  (gameplay/showdown.rs)                   *)
(***************************************************************************)

\* bounds of the showdown inputs
MaxSeats == 3
StakeLevels == {5, 10, 20}
ScoreLevels == {8, 9}

BetStatus == {"Playing", "Shoved", "Folded"}

\* u32::MIN and u32::MAX, the initial stake and score levels of Showdown::new.
\* Scores are below the sentinel; TLC's integers are 32-bit signed, so the
\* sentinel is the largest value TLC represents.
U32_MIN == 0
U32_MAX == 2147483647

\* Payout { status, staked, reward, score }; the seat is the index in the list
Payout(status, staked, score) ==
    [status |-> status, staked |-> staked, reward |-> 0, score |-> score]

PayoutInputs ==
    {Payout(st, sk, sc) : st \in BetStatus, sk \in StakeLevels, sc \in ScoreLevels}

Seats(ps) == 1..Len(ps)
TotalStaked(ps) == SumSeq([i \in Seats(ps) |-> ps[i].staked])
TotalReward(ps) == SumSeq([i \in Seats(ps) |-> ps[i].reward])

\* fn is_complete
IsComplete(ps) == TotalStaked(ps) = TotalReward(ps)

\* saturating_sub on u32
SaturatingSub(a, b) == IF a >= b THEN a - b ELSE 0

\* fn winnings
Winnings(ps, next, prev) ==
    SumSeq([i \in Seats(ps) |-> SaturatingSub(MinOf(ps[i].staked, next), prev)])

\* fn winners: the seats, in seat order, that contend for the current pot
WinnersNoScoreFilter(ps, score, prev) ==
    {i \in Seats(ps) : ps[i].staked > prev /\ ps[i].status # "Folded"}
WinnersWithFolded(ps, score, prev) ==
    {i \in Seats(ps) : ps[i].score = score /\ ps[i].staked > prev}
Winners(ps, score, prev) ==
    {i \in Seats(ps) : /\ ps[i].score = score
                       /\ ps[i].staked > prev
                       /\ ps[i].status # "Folded"}

\* the position of seat i among the winners (0-based), as iter_mut().take(n) counts
Position(W, i) == Cardinality({j \in W : j < i})

\* fn distribute: the payouts after one distribution (winners must be non-empty)
DistributeNoRemainder(ps, score, next, prev) ==
    LET winnings == Winnings(ps, next, prev)
        W == Winners(ps, score, prev)
        share == winnings \div Cardinality(W)
    IN  [i \in Seats(ps) |->
            IF i \in W THEN [ps[i] EXCEPT !.reward = @ + share] ELSE ps[i]]
Distributed(ps, score, next, prev) ==
    LET winnings == Winnings(ps, next, prev)
        W == Winners(ps, score, prev)
        share == winnings \div Cardinality(W)
        remainder == winnings % Cardinality(W)
    IN  [i \in Seats(ps) |->
            IF i \in W
            THEN [ps[i] EXCEPT !.reward =
                    @ + share + (IF Position(W, i) < remainder THEN 1 ELSE 0)]
            ELSE ps[i]]

\* fn next_stake: the candidates of the min() and its unwrap
StakeCandidates(ps, score, prev) ==
    {ps[i].staked : i \in {j \in Seats(ps) : /\ ps[j].score = score
                                              /\ ps[j].staked > prev
                                              /\ ps[j].status # "Folded"}}

\* fn next_score: the candidates of the max() and its unwrap
ScoreCandidates(ps, score) ==
    {ps[i].score : i \in {j \in Seats(ps) : /\ ps[j].score < score
                                             /\ ps[j].status # "Folded"}}
PickScoreLowest(S) == SetMin(S)
PickScore(S) == SetMax(S)

\* Showdown::new(payouts), for every payout list within the bounds
InitShowdown ==
    /\ \E n \in 1..MaxSeats : payouts \in [1..n -> PayoutInputs]
    /\ next_stake = U32_MIN
    /\ prev_stake = U32_MIN
    /\ next_score = U32_MAX
    /\ sd_pc = "next_score"
    /\ hand = {} /\ ranking = None /\ kickers = {} /\ ev_pc = "idle"
    /\ iterations = 0 /\ strategies = <<>> /\ pf_pc = "idle" /\ calls = 0
    /\ file = <<>> /\ cursor = 0 /\ loaded = <<>> /\ ps_pc = "idle"
    /\ ob = <<>> /\ ob_bits = <<>> /\ ob_back = <<>> /\ ob_pc = "idle"
    /\ ed_edges = <<>> /\ ed_codes = <<>> /\ ed_back = <<>> /\ ed_pc = "idle"
    /\ rv_index = <<>> /\ rv_senders = {} /\ rv_chan = <<>> /\ rv_received = <<>>
    /\ rv_buffer = <<>> /\ rv_batches = <<>> /\ rv_pc = "idle"
    /\ sx_mode = "" /\ sx_choices = <<>> /\ sx_head = <<>> /\ sx_ambient = 0
    /\ sx_out = <<>> /\ sx_again = <<>> /\ sx_pc = "idle"
    /\ km_points = <<>> /\ km_kmeans = <<>> /\ km_before = <<>> /\ km_t = 0 /\ km_i = 0
    /\ km_pc = "idle"
    /\ ik_iter = 0 /\ ik_k = 0 /\ ik_kmeans = <<>> /\ ik_out = <<>> /\ ik_pc = "idle"
    /\ rc_nodes = <<>> /\ rc_edges = <<>> /\ rc_strat = <<>> /\ rc_args = <<>> /\ rc_out = <<>> /\ rc_pc = "idle"
    /\ st_seat = <<>> /\ st_head = <<>> /\ st_build = "" /\ st_out = <<>> /\ st_pc = "idle"

\* payouts(), line 24: self.next_score(); unwrap() panics on no candidate
NextScore ==
    /\ sd_pc = "next_score"
    /\ LET S == ScoreCandidates(payouts, next_score)
       IN  IF S = {}
           THEN /\ sd_pc' = "panicked"
                /\ UNCHANGED next_score
           ELSE /\ next_score' = PickScore(S)
                /\ sd_pc' = "next_stake"
    /\ UNCHANGED <<payouts, next_stake, prev_stake, ev_vars, pf_vars, ps_vars, ob_vars, ed_vars, rv_vars, sx_vars, km_vars, ik_vars, rc_vars, st_vars>>

\* payouts(), line 26: self.next_stake(); prev_stake is assigned before the unwrap()
NextStake ==
    /\ sd_pc = "next_stake"
    /\ prev_stake' = next_stake
    /\ LET S == StakeCandidates(payouts, next_score, next_stake)
       IN  IF S = {}
           THEN /\ sd_pc' = "panicked"
                /\ UNCHANGED next_stake
           ELSE /\ next_stake' = SetMin(S)
                /\ sd_pc' = "distribute"
    /\ UNCHANGED <<payouts, next_score, ev_vars, pf_vars, ps_vars, ob_vars, ed_vars, rv_vars, sx_vars, km_vars, ik_vars, rc_vars, st_vars>>

\* payouts(), line 27: self.distribute()
Distribute ==
    /\ sd_pc = "distribute"
    /\ payouts' = Distributed(payouts, next_score, next_stake, prev_stake)
    /\ sd_pc' = "is_complete"
    /\ UNCHANGED <<next_score, next_stake, prev_stake, ev_vars, pf_vars, ps_vars, ob_vars, ed_vars, rv_vars, sx_vars, km_vars, ik_vars, rc_vars, st_vars>>

\* payouts(), lines 28-30: return when complete, else the inner loop repeats
\* (the inner `loop` has no other exit, so next_score() is never called again)
CheckComplete ==
    /\ sd_pc = "is_complete"
    /\ sd_pc' = IF IsComplete(payouts) THEN "returned" ELSE "next_stake"
    /\ UNCHANGED <<payouts, next_score, next_stake, prev_stake, ev_vars, pf_vars, ps_vars, ob_vars, ed_vars, rv_vars, sx_vars, km_vars, ik_vars, rc_vars, st_vars>>

NextShowdown == NextScore \/ NextStake \/ Distribute \/ CheckComplete

SpecShowdown == InitShowdown /\ [][NextShowdown]_vars

(***************************************************************************)
(*                      EVALUATOR  (cards/evaluator.rs)                    *)
(*                                                                         *)
(* A bitboard (u64 Hand, u16 rank mask) is modelled as the set of the       *)
(* positions of its set bits: & is intersection, | is union, count_ones is *)
(* the cardinality, and a shift moves every position.  A card is the bit    *)
(* 4 * rank + suit of the Hand, the layout find_rank_of_n_oak_under scans.  *)
(***************************************************************************)

\* ranks Two..Ace are 0..12
Two == 0
Five == 3
Six == 4
King == 11
Ace == 12
NRanks == 13
NSuits == 4
\* the number of cards evaluated: a pocket of 2 with a board of 3 to 5
MinCards == 5
MaxCards == 7

RankOf(c) == c \div NSuits
SuitOf(c) == c % NSuits

\* the cards the model deals from: every suit of Two, King and Ace and the
\* first two suits of Three..Six
Deck ==
    {c \in 0..(NRanks * NSuits - 1) :
        \/ RankOf(c) \in {Two, King, Ace}
        \/ RankOf(c) \in (Two + 1)..Six /\ SuitOf(c) < 2}

\* u64::from(Suit): the bit plane of a suit
SuitMask(s) == {NSuits * r + s : r \in 0..(NRanks - 1)}
\* Hand::of(&suit): the cards of the hand in that suit
HandOf(h, s) == h \cap SuitMask(s)
\* u16::from(Hand): the rank mask, OR over the suits
RankMask(h) == {RankOf(c) : c \in h}
\* Rank::from(u16): the rank of the highest set bit
RankFromMask(bits) == SetMax(bits)
\* u16::from(Rank): the one-hot rank bit
RankBit(r) == {r}

\* const WHEEL (full deck): A 2 3 4 5, and LOWEST_STRAIGHT_RANK
WHEEL == {Ace, Two, Two + 1, Two + 2, Five}
LOWEST_STRAIGHT_RANK == Five

OrElse(a, b) == LET first == a IN IF IsSome(first) THEN first ELSE b

\* bits &= bits << 1
AndShift(bits) == {b \in bits : (b - 1) \in bits}

\* fn find_rank_of_straight
find_rank_of_straight(h) ==
    LET ranks == RankMask(h)
        bits == AndShift(AndShift(AndShift(AndShift(ranks))))
    IN  IF bits # {} THEN Some(RankFromMask(bits))
        ELSE IF WHEEL = (WHEEL \cap ranks) THEN Some(LOWEST_STRAIGHT_RANK)
        ELSE None

\* fn find_rank_of_n_oak_under: the loop `while mask > 0`, mask being the
\* nibble of rank k; it starts at the nibble below `rank` (rank 13 for None)
RECURSIVE ScanNibbles(_, _, _)
ScanNibbles(h, oak, k) ==
    IF k < 0 THEN None
    ELSE IF oak <= Cardinality({c \in h : RankOf(c) = k}) THEN Some(k)
    ELSE ScanNibbles(h, oak, k - 1)

find_rank_of_n_oak_under(h, oak, rank) ==
    LET r == IF IsSome(rank) THEN Unwrap(rank) ELSE NRanks
        below == {c \in h : c < NSuits * r}
    IN  ScanNibbles(below, oak, r - 1)

\* fn find_rank_of_n_oak
find_rank_of_n_oak(h, n) == find_rank_of_n_oak_under(h, n, None)

\* fn find_suit_of_flush: the first suit, in Suit::all() order, with 5 cards
find_suit_of_flush(h) ==
    LET S == {s \in 0..(NSuits - 1) : Cardinality(HandOf(h, s)) >= 5}
    IN  IF S = {} THEN None ELSE Some(SetMin(S))

\* fn find_rank_of_straight_flush
StraightOfWholeHand(h, suit) == find_rank_of_straight(h)
find_rank_of_straight_flush(h, suit) == find_rank_of_straight(HandOf(h, suit))

\* fn find_flush
find_flush(h) ==
    LET suit == find_suit_of_flush(h)
    IN  IF ~IsSome(suit) THEN None
        ELSE LET sf == find_rank_of_straight_flush(h, Unwrap(suit))
             IN  IF IsSome(sf) THEN Some(<<"StraightFlush", Unwrap(sf)>>)
                 ELSE Some(<<"Flush", RankFromMask(RankMask(HandOf(h, Unwrap(suit))))>>)

\* fn find_1_oak .. find_4_oak
find_1_oak(h) ==
    LET r == find_rank_of_n_oak(h, 1) IN IF IsSome(r) THEN Some(<<"HighCard", Unwrap(r)>>) ELSE None
find_2_oak(h) ==
    LET r == find_rank_of_n_oak(h, 2) IN IF IsSome(r) THEN Some(<<"OnePair", Unwrap(r)>>) ELSE None
find_3_oak(h) ==
    LET r == find_rank_of_n_oak(h, 3) IN IF IsSome(r) THEN Some(<<"ThreeOAK", Unwrap(r)>>) ELSE None
find_4_oak(h) ==
    LET r == find_rank_of_n_oak(h, 4) IN IF IsSome(r) THEN Some(<<"FourOAK", Unwrap(r)>>) ELSE None

\* fn find_2_oak_2_oak
find_2_oak_2_oak(h) ==
    LET hi == find_rank_of_n_oak(h, 2)
    IN  IF ~IsSome(hi) THEN None
        ELSE LET lo == find_rank_of_n_oak_under(h, 2, hi)
             IN  IF IsSome(lo) THEN Some(<<"TwoPair", Unwrap(hi), Unwrap(lo)>>)
                 ELSE Some(<<"OnePair", Unwrap(hi)>>)

\* fn find_3_oak_2_oak
find_3_oak_2_oak(h) ==
    LET trips == find_rank_of_n_oak(h, 3)
    IN  IF ~IsSome(trips) THEN None
        ELSE LET pairs == find_rank_of_n_oak_under(h, 2, trips)
             IN  IF IsSome(pairs) THEN Some(<<"FullHouse", Unwrap(trips), Unwrap(pairs)>>)
                 ELSE None

\* fn find_straight
find_straight(h) ==
    LET r == find_rank_of_straight(h) IN IF IsSome(r) THEN Some(<<"Straight", Unwrap(r)>>) ELSE None

\* fn find_ranking: the or_else chain; expect() on the result
find_ranking(h) ==
    Unwrap(OrElse(find_flush(h),
           OrElse(find_4_oak(h),
           OrElse(find_3_oak_2_oak(h),
           OrElse(find_straight(h),
           OrElse(find_3_oak(h),
           OrElse(find_2_oak_2_oak(h),
           OrElse(find_2_oak(h),
                  find_1_oak(h)))))))))

\* fn find_kickers, the loop: bits &= !(1 << bits.trailing_zeros())
RECURSIVE ClearLowest(_, _)
ClearLowest(bits, n) ==
    IF Cardinality(bits) > n THEN ClearLowest(bits \ {SetMin(bits)}, n) ELSE bits

\* fn find_kickers
find_kickers(h, value) ==
    IF value[1] \notin {"FourOAK", "TwoPair", "HighCard", "OnePair", "ThreeOAK"}
    THEN {}
    ELSE LET n == CASE value[1] \in {"FourOAK", "TwoPair"} -> 1
                    [] value[1] = "HighCard" -> 4
                    [] value[1] = "OnePair" -> 3
                    [] value[1] = "ThreeOAK" -> 2
             mask == IF value[1] = "TwoPair"
                     THEN RankBit(value[2]) \cup RankBit(value[3])
                     ELSE RankBit(value[2])
         IN  ClearLowest(RankMask(h) \cap mask, n)

\* the hand is empty before the first card
InitEval ==
    /\ hand = {} /\ ranking = None /\ kickers = {} /\ ev_pc = "hand"
    /\ payouts = <<>> /\ next_score = U32_MAX /\ next_stake = U32_MIN
    /\ prev_stake = U32_MIN /\ sd_pc = "idle"
    /\ iterations = 0 /\ strategies = <<>> /\ pf_pc = "idle" /\ calls = 0
    /\ file = <<>> /\ cursor = 0 /\ loaded = <<>> /\ ps_pc = "idle"
    /\ ob = <<>> /\ ob_bits = <<>> /\ ob_back = <<>> /\ ob_pc = "idle"
    /\ ed_edges = <<>> /\ ed_codes = <<>> /\ ed_back = <<>> /\ ed_pc = "idle"
    /\ rv_index = <<>> /\ rv_senders = {} /\ rv_chan = <<>> /\ rv_received = <<>>
    /\ rv_buffer = <<>> /\ rv_batches = <<>> /\ rv_pc = "idle"
    /\ sx_mode = "" /\ sx_choices = <<>> /\ sx_head = <<>> /\ sx_ambient = 0
    /\ sx_out = <<>> /\ sx_again = <<>> /\ sx_pc = "idle"
    /\ km_points = <<>> /\ km_kmeans = <<>> /\ km_before = <<>> /\ km_t = 0 /\ km_i = 0
    /\ km_pc = "idle"
    /\ ik_iter = 0 /\ ik_k = 0 /\ ik_kmeans = <<>> /\ ik_out = <<>> /\ ik_pc = "idle"
    /\ rc_nodes = <<>> /\ rc_edges = <<>> /\ rc_strat = <<>> /\ rc_args = <<>> /\ rc_out = <<>> /\ rc_pc = "idle"
    /\ st_seat = <<>> /\ st_head = <<>> /\ st_build = "" /\ st_out = <<>> /\ st_pc = "idle"

\* Hand::add of one more card; cards are added in increasing bit order, so
\* that every hand of the deck is assembled exactly once
Deal ==
    /\ ev_pc = "hand"
    /\ Cardinality(hand) < MaxCards
    /\ \E c \in Deck :
        /\ \A d \in hand : d < c
        /\ hand' = hand \cup {c}
    /\ UNCHANGED <<ranking, kickers, ev_pc, sd_vars, pf_vars, ps_vars, ob_vars, ed_vars, rv_vars, sx_vars, km_vars, ik_vars, rc_vars, st_vars>>

\* Evaluator::from(hand), then find_ranking() and find_kickers(ranking)
Evaluate ==
    /\ ev_pc = "hand"
    /\ Cardinality(hand) >= MinCards
    /\ ranking' = Some(find_ranking(hand))
    /\ kickers' = find_kickers(hand, Unwrap(ranking'))
    /\ ev_pc' = "done"
    /\ UNCHANGED <<hand, sd_vars, pf_vars, ps_vars, ob_vars, ed_vars, rv_vars, sx_vars, km_vars, ik_vars, rc_vars, st_vars>>

NextEval == Deal \/ Evaluate

SpecEval == InitEval /\ [][NextEval]_vars

(***************************************************************************)
(*                       PROFILE  (mccfr/profile.rs)                       *)
(*                                                                         *)
(* Utility and Probability are f32.  A float is modelled as an exact       *)
(* fraction <<n, d>> in lowest terms with d > 0, plus the IEEE specials    *)
(* <<1, 0>> (+inf), <<-1, 0>> (-inf) and <<0, 0>> (NaN); rounding is not   *)
(* modelled.                                                               *)
(***************************************************************************)

Abs(n) == IF n < 0 THEN -n ELSE n
Sign(n) == IF n < 0 THEN -1 ELSE IF n > 0 THEN 1 ELSE 0

RECURSIVE GCD(_, _)
GCD(a, b) == IF b = 0 THEN a ELSE GCD(b, a % b)

\* the common factor two terms are divided by before they are multiplied
Reduce(a, b) == LET g == GCD(Abs(a), Abs(b)) IN IF g = 0 THEN 1 ELSE g

\* the float n / d
Frac(n, d) ==
    IF d = 0 THEN <<Sign(n), 0>>
    ELSE LET g == GCD(Abs(n), Abs(d))
         IN  <<Sign(d) * (n \div g), Abs(d) \div g>>
F(n) == <<n, 1>>
NaN == <<0, 0>>
IsNaN(a) == a = NaN
IsInfinite(a) == a[2] = 0 /\ a[1] # 0
IsFinite(a) == a[2] # 0

FAdd(a, b) ==
    IF IsNaN(a) \/ IsNaN(b) THEN NaN
    ELSE IF IsInfinite(a) /\ IsInfinite(b) THEN (IF a = b THEN a ELSE NaN)
    ELSE LET g == Reduce(a[2], b[2])
         IN  Frac(a[1] * (b[2] \div g) + b[1] * (a[2] \div g), (a[2] \div g) * b[2])
FMul(a, b) ==
    LET g == Reduce(a[1], b[2])
        h == Reduce(b[1], a[2])
    IN  Frac((a[1] \div g) * (b[1] \div h), (a[2] \div h) * (b[2] \div g))
FDiv(a, b) ==
    IF IsInfinite(a) /\ b[2] # 0 THEN <<a[1] * (IF b[1] < 0 THEN -1 ELSE 1), 0>>
    ELSE LET g == Reduce(a[1], b[1])
             h == Reduce(a[2], b[2])
         IN  Frac((a[1] \div g) * (b[2] \div h), (a[2] \div h) * (b[1] \div g))
FLe(a, b) ==
    LET g == Reduce(a[2], b[2])
    IN  /\ ~IsNaN(a) /\ ~IsNaN(b)
        /\ \/ a = b
           \/ a[1] * (b[2] \div g) < b[1] * (a[2] \div g)
           \/ (a = <<-1, 0>> /\ b = <<1, 0>>)
FLt(a, b) == FLe(a, b) /\ a # b
FMax(a, b) == IF FLe(a, b) THEN b ELSE a
FMin(a, b) == IF FLe(a, b) THEN a ELSE b

RECURSIVE FSum(_)
FSum(s) == IF s = <<>> THEN F(0) ELSE FAdd(Head(s), FSum(Tail(s)))

\* bounds of the profile model
MaxCalls == 2
Buckets == {"b1", "b2"}
Edges == {"Fold", "Call"}
\* a node has at most one child per edge of the model
MaxChildren == Cardinality(Edges)

\* enum Edge, in its derived order (Ord)
EdgeOrd == <<"Draw", "Fold", "Check", "Call", "Raise", "Shove">>
EdgeRank(e) == CHOOSE i \in 1..Len(EdgeOrd) : EdgeOrd[i] = e
\* the edges of a set as the sequence a BTreeMap iterates them
RECURSIVE InOrder(_)
InOrder(S) ==
    IF S = {} THEN <<>>
    ELSE LET e == CHOOSE x \in S : \A y \in S : EdgeRank(x) <= EdgeRank(y)
         IN  <<e>> \o InOrder(S \ {e})

\* crate::REGRET_MIN, crate::REGRET_MAX, crate::CFR_DISCOUNT_PHASE and
\* crate::CFR_PRUNNING_PHASE, scaled down to the model's bounds
REGRET_MIN == -2
REGRET_MAX == 2
CFR_DISCOUNT_PHASE == 2
CFR_PRUNNING_PHASE == 3
\* the epochs run through the Discount phase into the Explore phase
MaxEpochs == CFR_DISCOUNT_PHASE

\* the square root of a non-negative integer: exact on squares, else to one decimal
RECURSIVE ISqrtFrom(_, _)
ISqrtFrom(n, k) == IF (k + 1) * (k + 1) > n THEN k ELSE ISqrtFrom(n, k + 1)
SqrtOf == [t \in 0..(MaxEpochs + 1) |-> Frac(ISqrtFrom(100 * t, 0), 10)]
Sqrt(t) == SqrtOf[t]

\* Discount::default(): period 1, alpha 1.5, omega 0.5, gamma 2.0
Period == 1
\* (t / period).powf(alpha), (t / period).powf(omega)
PowAlpha(t) == FMul(F(t \div Period), Sqrt(t \div Period))
PowOmega(t) == Sqrt(t \div Period)
\* x.powf(gamma)
PowGamma(x) == FMul(x, x)

\* Discount::policy
DiscountPolicy(t) == PowGamma(FDiv(F(t), FAdd(F(t), F(1))))

\* Discount::regret
DiscountRegret(t, regret) ==
    IF t % Period # 0 THEN F(1)
    ELSE IF FLt(F(0), regret) THEN LET x == PowAlpha(t) IN FDiv(x, FAdd(x, F(1)))
    ELSE IF FLt(regret, F(0)) THEN LET x == PowOmega(t) IN FDiv(x, FAdd(x, F(1)))
    ELSE F(1)

\* impl From<usize> for Phase
Phase(epochs) ==
    IF epochs < CFR_DISCOUNT_PHASE THEN "Discount"
    ELSE IF epochs < CFR_PRUNNING_PHASE THEN "Explore"
    ELSE "Prune"

\* Decision::default() with a policy
Decision(policy, regret) == [policy |-> policy, regret |-> regret]

\* Profile::epochs
epochs == iterations

\* Profile::witness, `let uniform = 1. / n as Probability`
UniformUnnormalised(n) == F(1)
Uniform(n) == FDiv(F(1), F(n))

ChildEdges(children) == {children[i] : i \in 1..Len(children)}

\* Profile::witness: the strategies after the call (the None arm inserts every
\* child edge with the default regret and the uniform policy; the Some arm
\* only asserts)
WitnessedAlwaysReset(strat, bucket, children) ==
    IF children = <<>> THEN strat
    ELSE [b \in DOMAIN strat \cup {bucket} |->
            IF b = bucket
            THEN [e \in ChildEdges(children) |-> Decision(Uniform(Len(children)), F(0))]
            ELSE strat[b]]
Witnessed(strat, bucket, children) ==
    IF bucket \in DOMAIN strat \/ children = <<>> THEN strat
    ELSE [b \in DOMAIN strat \cup {bucket} |->
            IF b = bucket
            THEN [e \in ChildEdges(children) |-> Decision(Uniform(Len(children)), F(0))]
            ELSE strat[b]]

\* Profile::witness, `assert!(observed == existing)`
WitnessAsserts(strat, bucket, children) ==
    bucket \in DOMAIN strat => ChildEdges(children) = DOMAIN strat[bucket]

\* Profile::regret_vector, lines 169-170: the clamp of an immediate regret
Clamp(r) == FMin(FMax(r, F(REGRET_MIN)), F(REGRET_MAX))

\* the edges of a delta map that an update reaches before it panics on an
\* edge the bucket has not witnessed (all of them when there is none)
Reached(strategy, delta) ==
    {e \in DOMAIN delta :
        \A m \in DOMAIN delta \ DOMAIN strategy : EdgeRank(e) < EdgeRank(m)}

\* Profile::regret_update, the loop body for one (action, regret)
RegretUpdated(decision, t, regret) ==
    LET discount == IF Phase(t) = "Discount" THEN DiscountRegret(t, regret) ELSE F(1)
    IN  [decision EXCEPT !.regret = FAdd(FMul(@, discount), regret)]

\* Profile::policy_update, the loop body for one (action, policy)
PolicyUpdated(decision, t, policy) ==
    [decision EXCEPT !.policy = FAdd(FMul(@, DiscountPolicy(t)), policy)]

\* Profile::policy: the stored policy normalised over the bucket's edges
policy_over_epochs(strat, bucket, edge) ==
    FDiv(strat[bucket][edge].policy, F(epochs))
policy(strat, bucket, edge) ==
    LET weight == strat[bucket][edge].policy
        es == InOrder(DOMAIN strat[bucket])
        shared == FSum([i \in 1..Len(es) |-> strat[bucket][es[i]].policy])
    IN  FDiv(weight, shared)

\* Profile::regret_update: the strategies after the call, a panic included
RegretsUpserted(strat, bucket, regrets, t) ==
    [b \in DOMAIN strat \cup {bucket} |->
        IF b # bucket THEN strat[b]
        ELSE LET known == IF b \in DOMAIN strat THEN strat[b] ELSE [e \in {} |-> e]
             IN  [e \in DOMAIN known \cup DOMAIN regrets |->
                    LET decision == IF e \in DOMAIN known THEN known[e]
                                    ELSE Decision(F(0), F(0))
                    IN  IF e \in DOMAIN regrets
                        THEN RegretUpdated(decision, t, regrets[e])
                        ELSE decision]]
RegretsUpdated(strat, bucket, regrets, t) ==
    IF bucket \notin DOMAIN strat THEN strat
    ELSE [strat EXCEPT ![bucket] =
            [e \in DOMAIN @ |->
                IF e \in Reached(@, regrets)
                THEN RegretUpdated(@[e], t, regrets[e])
                ELSE @[e]]]

\* Profile::policy_update: the strategies after the call, a panic included
PolicysUpdated(strat, bucket, policys, t) ==
    IF bucket \notin DOMAIN strat THEN strat
    ELSE [strat EXCEPT ![bucket] =
            [e \in DOMAIN @ |->
                IF e \in Reached(@, policys)
                THEN PolicyUpdated(@[e], t, policys[e])
                ELSE @[e]]]

\* the two expect() of regret_update and policy_update
UpdateOutcome(strat, bucket, delta) ==
    IF bucket \notin DOMAIN strat THEN "bucket been witnessed"
    ELSE IF ~(DOMAIN delta \subseteq DOMAIN strat[bucket]) THEN "action been witnessed"
    ELSE "ok"

\* the arguments of the calls
ChildrenInputs == UNION {[1..n -> Edges] : n \in 0..MaxChildren}
RawRegrets == {F(REGRET_MIN - 1), F(0), F(REGRET_MAX + 1)}
RegretInputs == UNION {[S -> {Clamp(r) : r \in RawRegrets}] : S \in SUBSET Edges \ {{}}}
PolicyGrid == {F(0), Frac(1, 2), F(1)}
PolicyInputs ==
    {d \in UNION {[S -> PolicyGrid] : S \in SUBSET Edges \ {{}}} :
        LET es == InOrder(DOMAIN d) IN FSum([i \in 1..Len(es) |-> d[es[i]]]) = F(1)}

\* Profile::load(): no strategy, no iteration
InitProfile ==
    /\ iterations = 0
    /\ strategies = [b \in {} |-> b]
    /\ pf_pc = "ok"
    /\ calls = 0
    /\ payouts = <<>> /\ next_score = U32_MAX /\ next_stake = U32_MIN
    /\ prev_stake = U32_MIN /\ sd_pc = "idle"
    /\ hand = {} /\ ranking = None /\ kickers = {} /\ ev_pc = "idle"
    /\ file = <<>> /\ cursor = 0 /\ loaded = <<>> /\ ps_pc = "idle"
    /\ ob = <<>> /\ ob_bits = <<>> /\ ob_back = <<>> /\ ob_pc = "idle"
    /\ ed_edges = <<>> /\ ed_codes = <<>> /\ ed_back = <<>> /\ ed_pc = "idle"
    /\ rv_index = <<>> /\ rv_senders = {} /\ rv_chan = <<>> /\ rv_received = <<>>
    /\ rv_buffer = <<>> /\ rv_batches = <<>> /\ rv_pc = "idle"
    /\ sx_mode = "" /\ sx_choices = <<>> /\ sx_head = <<>> /\ sx_ambient = 0
    /\ sx_out = <<>> /\ sx_again = <<>> /\ sx_pc = "idle"
    /\ km_points = <<>> /\ km_kmeans = <<>> /\ km_before = <<>> /\ km_t = 0 /\ km_i = 0
    /\ km_pc = "idle"
    /\ ik_iter = 0 /\ ik_k = 0 /\ ik_kmeans = <<>> /\ ik_out = <<>> /\ ik_pc = "idle"
    /\ rc_nodes = <<>> /\ rc_edges = <<>> /\ rc_strat = <<>> /\ rc_args = <<>> /\ rc_out = <<>> /\ rc_pc = "idle"
    /\ st_seat = <<>> /\ st_head = <<>> /\ st_build = "" /\ st_out = <<>> /\ st_pc = "idle"

\* Profile::next
ProfileNext ==
    /\ pf_pc = "ok"
    /\ iterations < MaxEpochs
    /\ iterations' = iterations + 1
    /\ UNCHANGED <<strategies, pf_pc, calls, sd_vars, ev_vars, ps_vars, ob_vars, ed_vars, rv_vars, sx_vars, km_vars, ik_vars, rc_vars, st_vars>>

\* Profile::witness(node, children), node.bucket() = bucket
Witness ==
    /\ pf_pc = "ok"
    /\ \E bucket \in Buckets, children \in ChildrenInputs :
        /\ strategies' = Witnessed(strategies, bucket, children)
        /\ pf_pc' = IF WitnessAsserts(strategies, bucket, children)
                    THEN "ok" ELSE "assertion failed: observed == existing"
    /\ UNCHANGED <<iterations, calls, sd_vars, ev_vars, ps_vars, ob_vars, ed_vars, rv_vars, sx_vars, km_vars, ik_vars, rc_vars, st_vars>>

\* Profile::regret_update(bucket, regrets): expect() panics on a bucket or an
\* action that was not witnessed, after the updates of the actions before it
RegretUpdate ==
    /\ pf_pc = "ok"
    /\ calls < MaxCalls
    /\ \E bucket \in Buckets, regrets \in RegretInputs :
        /\ strategies' = RegretsUpdated(strategies, bucket, regrets, epochs)
        /\ pf_pc' = UpdateOutcome(strategies, bucket, regrets)
    /\ calls' = calls + 1
    /\ UNCHANGED <<iterations, sd_vars, ev_vars, ps_vars, ob_vars, ed_vars, rv_vars, sx_vars, km_vars, ik_vars, rc_vars, st_vars>>

\* Profile::policy_update(bucket, policys): as regret_update
PolicyUpdate ==
    /\ pf_pc = "ok"
    /\ calls < MaxCalls
    /\ \E bucket \in Buckets, policys \in PolicyInputs :
        /\ strategies' = PolicysUpdated(strategies, bucket, policys, epochs)
        /\ pf_pc' = UpdateOutcome(strategies, bucket, policys)
    /\ calls' = calls + 1
    /\ UNCHANGED <<iterations, sd_vars, ev_vars, ps_vars, ob_vars, ed_vars, rv_vars, sx_vars, km_vars, ik_vars, rc_vars, st_vars>>

NextProfile == ProfileNext \/ Witness \/ RegretUpdate \/ PolicyUpdate

SpecProfile == InitProfile /\ [][NextProfile]_vars

(***************************************************************************)
(*                 EDGE ENCODINGS  (mccfr/edge.rs)                         *)
(* An Edge is the tuple <<variant>> or <<"Raise", num, den>>.              *)
(***************************************************************************)

RECURSIVE Pow2(_)
Pow2(k) == IF k = 0 THEN 1 ELSE 2 * Pow2(k - 1)
\* <<, >>, & and | on unsigned integers
Shl(a, k) == a * Pow2(k)
Shr(a, k) == a \div Pow2(k)
RECURSIVE BitAnd(_, _)
BitAnd(a, b) ==
    IF a = 0 \/ b = 0 THEN 0
    ELSE (a % 2) * (b % 2) + 2 * BitAnd(a \div 2, b \div 2)
RECURSIVE BitOr(_, _)
BitOr(a, b) ==
    IF a = 0 THEN b ELSE IF b = 0 THEN a
    ELSE (IF a % 2 = 1 \/ b % 2 = 1 THEN 1 ELSE 0) + 2 * BitOr(a \div 2, b \div 2)

\* Odds(num, den) and Odds::GRID, the ten raise sizes
Odds(num, den) == <<num, den>>
GRID == <<Odds(1, 4), Odds(1, 3), Odds(1, 2), Odds(2, 3), Odds(3, 4),
          Odds(1, 1), Odds(3, 2), Odds(2, 1), Odds(3, 1), Odds(4, 1)>>

\* enum Edge
Draw == <<"Draw">>
Fold == <<"Fold">>
Check == <<"Check">>
Call == <<"Call">>
Shove == <<"Shove">>
Raise(odds) == <<"Raise", odds[1], odds[2]>>
OddsOf(edge) == Odds(edge[2], edge[3])

\* the order of Edge (derive Ord): by variant, Raise by its odds
EdgeLess(a, b) ==
    \/ EdgeRank(a[1]) < EdgeRank(b[1])
    \/ /\ a[1] = "Raise" /\ b[1] = "Raise"
       /\ a[2] < b[2] \/ (a[2] = b[2] /\ a[3] < b[3])
RECURSIVE EdgesInOrder(_)
EdgesInOrder(S) ==
    IF S = {} THEN <<>>
    ELSE LET e == CHOOSE x \in S : \A y \in S \ {x} : EdgeLess(x, y)
         IN  <<e>> \o EdgesInOrder(S \ {e})

\* impl From<Edge> for u64
EdgeToU64(edge) ==
    CASE edge[1] = "Draw" -> 0
      [] edge[1] = "Fold" -> 1
      [] edge[1] = "Check" -> 2
      [] edge[1] = "Call" -> 3
      [] edge[1] = "Raise" -> BitOr(BitOr(4, Shl(edge[2], 3)), Shl(edge[3], 11))
      [] edge[1] = "Shove" -> 5

\* impl From<u64> for Edge
U64ToEdgeUnshifted(value) ==
    LET tag == BitAnd(value, 7)
    IN  CASE tag = 0 -> Draw
          [] tag = 1 -> Fold
          [] tag = 2 -> Check
          [] tag = 3 -> Call
          [] tag = 4 -> Raise(Odds(BitAnd(value, 255), BitAnd(Shr(value, 8), 255)))
          [] tag = 5 -> Shove
          [] OTHER -> <<"unreachable">>
U64ToEdge(value) ==
    LET tag == BitAnd(value, 7)
    IN  CASE tag = 0 -> Draw
          [] tag = 1 -> Fold
          [] tag = 2 -> Check
          [] tag = 3 -> Call
          [] tag = 4 -> Raise(Odds(BitAnd(Shr(value, 3), 255), BitAnd(Shr(value, 11), 255)))
          [] tag = 5 -> Shove
          [] OTHER -> <<"unreachable">>

\* Odds::GRID.iter().position(|&o| o == odds), from 0
GridPosition(odds) ==
    IF \E i \in 1..Len(GRID) : GRID[i] = odds
    THEN Some((CHOOSE i \in 1..Len(GRID) : GRID[i] = odds /\ \A j \in 1..(i - 1) : GRID[j] # odds) - 1)
    ELSE None

\* impl From<Edge> for u8: None is the panic "invalid odds value"
EdgeToU8RaiseFromFive(edge) ==
    CASE edge[1] = "Draw" -> Some(1)
      [] edge[1] = "Fold" -> Some(2)
      [] edge[1] = "Check" -> Some(3)
      [] edge[1] = "Call" -> Some(4)
      [] edge[1] = "Shove" -> Some(5)
      [] edge[1] = "Raise" ->
            IF GridPosition(OddsOf(edge)) = None THEN None
            ELSE Some(5 + Unwrap(GridPosition(OddsOf(edge))))
EdgeToU8(edge) ==
    CASE edge[1] = "Draw" -> Some(1)
      [] edge[1] = "Fold" -> Some(2)
      [] edge[1] = "Check" -> Some(3)
      [] edge[1] = "Call" -> Some(4)
      [] edge[1] = "Shove" -> Some(5)
      [] edge[1] = "Raise" ->
            IF GridPosition(OddsOf(edge)) = None THEN None
            ELSE Some((6 + Unwrap(GridPosition(OddsOf(edge)))) % 256)

\* impl From<u8> for Edge
U8ToEdge(value) ==
    CASE value = 1 -> Draw
      [] value = 2 -> Fold
      [] value = 3 -> Check
      [] value = 4 -> Call
      [] value = 5 -> Shove
      [] value \in 6..15 -> Raise(GRID[(value - 6) + 1])
      [] OTHER -> <<"unreachable">>

\* the edges of bijection_tests and a raise outside the grid
GridEdges == {Draw, Fold, Check, Call, Shove} \cup {Raise(GRID[i]) : i \in 1..Len(GRID)}
EdgeInputs == GridEdges \cup {Raise(Odds(5, 1))}

InitEdge ==
    /\ ed_edges \in EdgeInputs \X EdgeInputs
    /\ ed_codes = <<>> /\ ed_back = <<>> /\ ed_pc = "start"
    /\ payouts = <<>> /\ next_score = U32_MAX /\ next_stake = U32_MIN
    /\ prev_stake = U32_MIN /\ sd_pc = "idle"
    /\ hand = {} /\ ranking = None /\ kickers = {} /\ ev_pc = "idle"
    /\ iterations = 0 /\ strategies = <<>> /\ pf_pc = "idle" /\ calls = 0
    /\ file = <<>> /\ cursor = 0 /\ loaded = <<>> /\ ps_pc = "idle"
    /\ ob = <<>> /\ ob_bits = <<>> /\ ob_back = <<>> /\ ob_pc = "idle"
    /\ rv_index = <<>> /\ rv_senders = {} /\ rv_chan = <<>> /\ rv_received = <<>>
    /\ rv_buffer = <<>> /\ rv_batches = <<>> /\ rv_pc = "idle"
    /\ sx_mode = "" /\ sx_choices = <<>> /\ sx_head = <<>> /\ sx_ambient = 0
    /\ sx_out = <<>> /\ sx_again = <<>> /\ sx_pc = "idle"
    /\ km_points = <<>> /\ km_kmeans = <<>> /\ km_before = <<>> /\ km_t = 0 /\ km_i = 0
    /\ km_pc = "idle"
    /\ ik_iter = 0 /\ ik_k = 0 /\ ik_kmeans = <<>> /\ ik_out = <<>> /\ ik_pc = "idle"
    /\ rc_nodes = <<>> /\ rc_edges = <<>> /\ rc_strat = <<>> /\ rc_args = <<>> /\ rc_out = <<>> /\ rc_pc = "idle"
    /\ st_seat = <<>> /\ st_head = <<>> /\ st_build = "" /\ st_out = <<>> /\ st_pc = "idle"

\* u8::from(edge) of both edges
EdgeIntoU8 ==
    /\ ed_pc = "start"
    /\ IF EdgeToU8(ed_edges[1]) = None \/ EdgeToU8(ed_edges[2]) = None
       THEN ed_pc' = "invalid odds value" /\ UNCHANGED ed_codes
       ELSE /\ ed_codes' = <<Unwrap(EdgeToU8(ed_edges[1])), Unwrap(EdgeToU8(ed_edges[2]))>>
            /\ ed_pc' = "u8"
    /\ UNCHANGED <<ed_edges, ed_back, sd_vars, ev_vars, pf_vars, ps_vars, ob_vars, rv_vars, sx_vars, km_vars, ik_vars, rc_vars, st_vars>>

\* Edge::from(u8) of both codes
EdgeFromU8 ==
    /\ ed_pc = "u8"
    /\ ed_back' = <<U8ToEdge(ed_codes[1]), U8ToEdge(ed_codes[2])>>
    /\ ed_pc' = IF <<"unreachable">> \in {ed_back'[1], ed_back'[2]}
                THEN "invalid edge encoding" ELSE "from u8"
    /\ UNCHANGED <<ed_edges, ed_codes, sd_vars, ev_vars, pf_vars, ps_vars, ob_vars, rv_vars, sx_vars, km_vars, ik_vars, rc_vars, st_vars>>

\* u64::from(edge) of both edges
EdgeIntoU64 ==
    /\ ed_pc = "start"
    /\ ed_codes' = <<EdgeToU64(ed_edges[1]), EdgeToU64(ed_edges[2])>>
    /\ ed_pc' = "u64"
    /\ UNCHANGED <<ed_edges, ed_back, sd_vars, ev_vars, pf_vars, ps_vars, ob_vars, rv_vars, sx_vars, km_vars, ik_vars, rc_vars, st_vars>>

\* Edge::from(u64) of both codes
EdgeFromU64 ==
    /\ ed_pc = "u64"
    /\ ed_back' = <<U64ToEdge(ed_codes[1]), U64ToEdge(ed_codes[2])>>
    /\ ed_pc' = IF <<"unreachable">> \in {ed_back'[1], ed_back'[2]}
                THEN "invalid edge encoding" ELSE "from u64"
    /\ UNCHANGED <<ed_edges, ed_codes, sd_vars, ev_vars, pf_vars, ps_vars, ob_vars, rv_vars, sx_vars, km_vars, ik_vars, rc_vars, st_vars>>

NextEdge == EdgeIntoU8 \/ EdgeFromU8 \/ EdgeIntoU64 \/ EdgeFromU64

SpecEdge == InitEdge /\ [][NextEdge]_vars


(***************************************************************************)
(*          PERSISTENCE  (mccfr/profile.rs, save and From<&str>)           *)
(* The dump is a sequence of bytes.  A Bucket is <<past, abs, future>>.    *)
(***************************************************************************)

\* write_u16 / write_u32 / write_u64 ::<BE>: n in width bytes, big end first
RECURSIVE BE(_, _)
BE(n, width) == IF width = 0 THEN <<>> ELSE BE(n \div 256, width - 1) \o <<n % 256>>
\* read_u16 / read_u32 / read_u64 ::<BE>
RECURSIVE FromBE(_)
FromBE(bytes) ==
    IF bytes = <<>> THEN 0
    ELSE 256 * FromBE(SubSeq(bytes, 1, Len(bytes) - 1)) + bytes[Len(bytes)]

\* the binary exponent e of a / d > 0: 2^e <= a / d < 2^(e + 1)
RECURSIVE Exponent(_, _)
Exponent(a, d) ==
    IF a >= 2 * d THEN Exponent(a, 2 * d) + 1
    ELSE IF a < d THEN Exponent(2 * a, d) - 1
    ELSE 0
\* write_f32::<BE>: sign, biased exponent and 23 bits of mantissa of an f32
F32Bytes(x) ==
    IF x[1] = 0 THEN <<0, 0, 0, 0>>
    ELSE LET sign == IF x[1] < 0 THEN 1 ELSE 0
             e == Exponent(Abs(x[1]), x[2])
             a == IF e < 0 THEN Abs(x[1]) * Pow2(-e) ELSE Abs(x[1])
             d == IF e > 0 THEN x[2] * Pow2(e) ELSE x[2]
             mant == ((a - d) * Pow2(23)) \div d
             exp == e + 127
         IN  <<sign * 128 + exp \div 2,
               (exp % 2) * 128 + mant \div 65536,
               (mant \div 256) % 256,
               mant % 256>>
\* read_f32::<BE>
F32FromBytes(bytes) ==
    LET sign == bytes[1] \div 128
        exp == (bytes[1] % 128) * 2 + bytes[2] \div 128
        mant == (bytes[2] % 128) * 65536 + bytes[3] * 256 + bytes[4]
        e == exp - 127
        num == (Pow2(23) + mant) * (IF sign = 1 THEN -1 ELSE 1)
    IN  IF exp = 0 /\ mant = 0 THEN F(0)
        ELSE IF e >= 0 THEN FMul(Frac(num, Pow2(23)), F(Pow2(e)))
        ELSE FMul(Frac(num, Pow2(23)), Frac(1, Pow2(-e)))

\* u64::from(Path) and Path::from(u64): Path is a newtype of u64
PathToU64(path) == path
U64ToPath(value) == value
\* u64::from(Abstraction) and Abstraction::from(u64): an opaque 64-bit id
AbstractionToU64(abs) == abs
U64ToAbstraction(value) == value
\* Bucket::from((past, abs, future))
Bucket(past, abs, future) == <<past, abs, future>>

\* the order of Bucket
BucketLess(a, b) ==
    \/ a[1] < b[1]
    \/ a[1] = b[1] /\ a[2] < b[2]
    \/ a[1] = b[1] /\ a[2] = b[2] /\ a[3] < b[3]
RECURSIVE BucketsInOrder(_)
BucketsInOrder(S) ==
    IF S = {} THEN <<>>
    ELSE LET b == CHOOSE x \in S : \A y \in S \ {x} : BucketLess(x, y)
         IN  <<b>> \o BucketsInOrder(S \ {b})

RECURSIVE Concat(_)
Concat(seqs) == IF seqs = <<>> THEN <<>> ELSE Head(seqs) \o Concat(Tail(seqs))

\* Profile::save: the header
SIGNATURE == <<80, 71, 67, 79, 80, 89, 10, 255, 13, 10, 0>>
Header == SIGNATURE \o BE(0, 4) \o BE(0, 4)
N_FIELDS == 6
TRAILER == 65535
SIZE_OF_U64 == 8
SIZE_OF_F32 == 4

\* Profile::save: one record
Record(bucket, edge, memory) ==
    BE(N_FIELDS, 2)
    \o BE(SIZE_OF_U64, 4) \o BE(PathToU64(bucket[1]), 8)
    \o BE(SIZE_OF_U64, 4) \o BE(AbstractionToU64(bucket[2]), 8)
    \o BE(SIZE_OF_U64, 4) \o BE(PathToU64(bucket[3]), 8)
    \o BE(SIZE_OF_U64, 4) \o BE(EdgeToU64(edge), 8)
    \o BE(SIZE_OF_F32, 4) \o F32Bytes(memory.regret)
    \o BE(SIZE_OF_F32, 4) \o F32Bytes(memory.policy)

\* Profile::save: the bytes written for the strategies
Saved(strat) ==
    LET bs == BucketsInOrder(DOMAIN strat)
        OfBucket(b) ==
            LET es == EdgesInOrder(DOMAIN strat[b])
            IN  Concat([i \in 1..Len(es) |-> Record(b, es[i], strat[b][es[i]])])
    IN  Header \o Concat([i \in 1..Len(bs) |-> OfBucket(bs[i])]) \o BE(TRAILER, 2)

\* reader.read_exact of n bytes at offset at
ReadExact(f, at, n) == IF at + n <= Len(f) THEN Some(SubSeq(f, at + 1, at + n)) ELSE None

\* reader.seek(SeekFrom::Start(19))
SEEK == 19
\* the bytes of one record after its field count
RecordLen == 4 * (4 + SIZE_OF_U64) + 2 * (4 + SIZE_OF_F32)

\* strategies.entry(bucket).or_insert_with(BTreeMap::new).insert(edge, memory)
Inserted(strat, bucket, edge, memory) ==
    [b \in DOMAIN strat \cup {bucket} |->
        IF b # bucket THEN strat[b]
        ELSE LET known == IF b \in DOMAIN strat THEN DOMAIN strat[b] ELSE {}
             IN  [e \in known \cup {edge} |-> IF e = edge THEN memory ELSE strat[b][e]]]

\* the body of the reader loop for a record of six fields at offset at
Parsed(strat, f, at) ==
    LET U64At(k) == FromBE(SubSeq(f, at + k + 1, at + k + 8))
        F32At(k) == F32FromBytes(SubSeq(f, at + k + 1, at + k + 4))
        past == U64ToPath(U64At(4))
        abs == U64ToAbstraction(U64At(16))
        future == U64ToPath(U64At(28))
        edge == U64ToEdge(U64At(40))
        memory == Decision(F32At(60), F32At(52))
    IN  Inserted(strat, Bucket(past, abs, future), edge, memory)

\* the profiles that are saved
PathInputs == {1, 4}
AbstractionInputs == {2, 300}
BucketInputs == {Bucket(1, 300, 4), Bucket(4, 2, 1)}
PersistedEdges == {Fold, Raise(GRID[3]), Shove}
DecisionInputs ==
    {Decision(Frac(1, 2), F(-2)), Decision(Frac(3, 4), F(0)), Decision(F(0), Frac(3, 2))}
StrategyInputs == UNION {[E -> DecisionInputs] : E \in SUBSET PersistedEdges \ {{}}}
ProfileInputs == UNION {[B -> StrategyInputs] : B \in SUBSET BucketInputs}
EpochInputs == {0, 3}

\* a Profile in memory, before save
InitPersist ==
    /\ strategies \in ProfileInputs
    /\ iterations \in EpochInputs
    /\ pf_pc = "idle" /\ calls = 0
    /\ file = <<>> /\ cursor = 0 /\ loaded = <<>> /\ ps_pc = "ready"
    /\ payouts = <<>> /\ next_score = U32_MAX /\ next_stake = U32_MIN
    /\ prev_stake = U32_MIN /\ sd_pc = "idle"
    /\ hand = {} /\ ranking = None /\ kickers = {} /\ ev_pc = "idle"
    /\ ob = <<>> /\ ob_bits = <<>> /\ ob_back = <<>> /\ ob_pc = "idle"
    /\ ed_edges = <<>> /\ ed_codes = <<>> /\ ed_back = <<>> /\ ed_pc = "idle"
    /\ rv_index = <<>> /\ rv_senders = {} /\ rv_chan = <<>> /\ rv_received = <<>>
    /\ rv_buffer = <<>> /\ rv_batches = <<>> /\ rv_pc = "idle"
    /\ sx_mode = "" /\ sx_choices = <<>> /\ sx_head = <<>> /\ sx_ambient = 0
    /\ sx_out = <<>> /\ sx_again = <<>> /\ sx_pc = "idle"
    /\ km_points = <<>> /\ km_kmeans = <<>> /\ km_before = <<>> /\ km_t = 0 /\ km_i = 0
    /\ km_pc = "idle"
    /\ ik_iter = 0 /\ ik_k = 0 /\ ik_kmeans = <<>> /\ ik_out = <<>> /\ ik_pc = "idle"
    /\ rc_nodes = <<>> /\ rc_edges = <<>> /\ rc_strat = <<>> /\ rc_args = <<>> /\ rc_out = <<>> /\ rc_pc = "idle"
    /\ st_seat = <<>> /\ st_head = <<>> /\ st_build = "" /\ st_out = <<>> /\ st_pc = "idle"

\* Profile::save(name)
Save ==
    /\ ps_pc = "ready"
    /\ file' = Saved(strategies)
    /\ ps_pc' = "saved"
    /\ UNCHANGED <<cursor, loaded, sd_vars, ev_vars, pf_vars, ob_vars, ed_vars, rv_vars, sx_vars, km_vars, ik_vars, rc_vars, st_vars>>

\* Profile::from(name), up to the loop: open, seek past the header
LoadOpen ==
    /\ ps_pc = "saved"
    /\ cursor' = SEEK
    /\ loaded' = [iterations |-> 0, strategies |-> <<>>]
    /\ ps_pc' = "reading"
    /\ UNCHANGED <<file, sd_vars, ev_vars, pf_vars, ob_vars, ed_vars, rv_vars, sx_vars, km_vars, ik_vars, rc_vars, st_vars>>

\* Profile::from(name), one turn of the loop: the loop ends when the two
\* bytes of the field count cannot be read or are not 6; a record that
\* ends before its last field panics in expect()
LoadRecord ==
    /\ ps_pc = "reading"
    /\ LET buffer == ReadExact(file, cursor, 2)
       IN  IF buffer = None
           THEN ps_pc' = "loaded" /\ UNCHANGED <<cursor, loaded>>
           ELSE IF FromBE(Unwrap(buffer)) = 6
           THEN IF ReadExact(file, cursor + 2, RecordLen) = None
                THEN ps_pc' = "panicked" /\ UNCHANGED <<cursor, loaded>>
                ELSE /\ loaded' = [loaded EXCEPT
                                     !.strategies = Parsed(@, file, cursor + 2)]
                     /\ cursor' = cursor + 2 + RecordLen
                     /\ ps_pc' = "reading"
           ELSE ps_pc' = "loaded" /\ cursor' = cursor + 2 /\ UNCHANGED loaded
    /\ UNCHANGED <<file, sd_vars, ev_vars, pf_vars, ob_vars, ed_vars, rv_vars, sx_vars, km_vars, ik_vars, rc_vars, st_vars>>

NextPersist == Save \/ LoadOpen \/ LoadRecord

SpecPersist == InitPersist /\ [][NextPersist]_vars

\* the dumps that are not what save writes: a signature with another first
\* byte, or a record (or the trailer) whose field count is neither 6 nor 0xFFFF
BadCounts == {5, 7}
BadSignatureBytes == {0, 81}
Records(f) == (Len(f) - SEEK - 2) \div (2 + RecordLen)
CountAt(k) == SEEK + k * (2 + RecordLen)
WithBytes(f, at, bytes) ==
    [i \in DOMAIN f |-> IF i > at /\ i <= at + Len(bytes) THEN bytes[i - at] ELSE f[i]]
CorruptDumps(f) ==
    {WithBytes(f, 0, <<b>>) : b \in BadSignatureBytes}
    \cup {WithBytes(f, CountAt(k), BE(n, 2)) : k \in 0..Records(f), n \in BadCounts}

\* the profiles whose dumps are corrupted: one Decision on every edge
DumpedInputs ==
    {p \in ProfileInputs :
        \A b \in DOMAIN p : \A e \in DOMAIN p[b] : p[b][e] = Decision(Frac(1, 2), F(-2))}

\* a corrupt dump on disk, before Profile::from(name)
InitCorrupt ==
    /\ strategies \in DumpedInputs
    /\ iterations = 0
    /\ pf_pc = "idle" /\ calls = 0
    /\ \E dump \in {Saved(strategies)} : file \in CorruptDumps(dump)
    /\ cursor = 0 /\ loaded = <<>> /\ ps_pc = "saved"
    /\ payouts = <<>> /\ next_score = U32_MAX /\ next_stake = U32_MIN
    /\ prev_stake = U32_MIN /\ sd_pc = "idle"
    /\ hand = {} /\ ranking = None /\ kickers = {} /\ ev_pc = "idle"
    /\ ob = <<>> /\ ob_bits = <<>> /\ ob_back = <<>> /\ ob_pc = "idle"
    /\ ed_edges = <<>> /\ ed_codes = <<>> /\ ed_back = <<>> /\ ed_pc = "idle"
    /\ rv_index = <<>> /\ rv_senders = {} /\ rv_chan = <<>> /\ rv_received = <<>>
    /\ rv_buffer = <<>> /\ rv_batches = <<>> /\ rv_pc = "idle"
    /\ sx_mode = "" /\ sx_choices = <<>> /\ sx_head = <<>> /\ sx_ambient = 0
    /\ sx_out = <<>> /\ sx_again = <<>> /\ sx_pc = "idle"
    /\ km_points = <<>> /\ km_kmeans = <<>> /\ km_before = <<>> /\ km_t = 0 /\ km_i = 0
    /\ km_pc = "idle"
    /\ ik_iter = 0 /\ ik_k = 0 /\ ik_kmeans = <<>> /\ ik_out = <<>> /\ ik_pc = "idle"
    /\ rc_nodes = <<>> /\ rc_edges = <<>> /\ rc_strat = <<>> /\ rc_args = <<>> /\ rc_out = <<>> /\ rc_pc = "idle"
    /\ st_seat = <<>> /\ st_head = <<>> /\ st_build = "" /\ st_out = <<>> /\ st_pc = "idle"

NextCorrupt == LoadOpen \/ LoadRecord

SpecCorrupt == InitCorrupt /\ [][NextCorrupt]_vars

(***************************************************************************)
(*               OBSERVATION  (cards/observation.rs)                       *)
(* A Hand is the set of its cards, a card the number 4 * rank + suit.  An  *)
(* i64 is the sequence of its non-zero bytes, least significant first.     *)
(***************************************************************************)

\* the cards the observations are made of
ObservationDeck == {0, 1, 5, 17, 30, 44, 51}

\* Hand::into_iter: the cards of a hand, lowest first
RECURSIVE CardsOf(_)
CardsOf(h) ==
    IF h = {} THEN <<>>
    ELSE LET c == CHOOSE x \in h : \A y \in h : x <= y
         IN  <<c>> \o CardsOf(h \ {c})

\* Hand::size
Size(h) == Cardinality(h)
\* Hand::add
Add(a, b) == a \cup b
\* u8::from(Card), Card::from(u8), Hand::from(Card)
CardToU8(card) == card
U8ToCard(n) == n
HandOfCard(card) == {card}

\* struct Observation
Observation(pocket, public) == [pocket |-> pocket, public |-> public]

\* impl From<(Hand, Hand)> for Observation: None when an assert fails
FromHands(pocket, public) ==
    IF Size(pocket) = 2 /\ Size(public) <= 5
    THEN Some(Observation(pocket, public))
    ELSE None

\* a u64 keeps eight bytes
U64_BYTES == 8
\* acc << 8 | card on a u64
ShiftIn(acc, byte) ==
    LET wide == <<byte>> \o acc
    IN  IF Len(wide) > U64_BYTES THEN SubSeq(wide, 1, U64_BYTES) ELSE wide
RECURSIVE FoldShiftIn(_, _)
FoldShiftIn(acc, bytes) ==
    IF bytes = <<>> THEN acc ELSE FoldShiftIn(ShiftIn(acc, Head(bytes)), Tail(bytes))

\* impl From<Observation> for i64
ObservationToI64PocketFirst(o) ==
    LET cards == CardsOf(o.pocket) \o CardsOf(o.public)
    IN  FoldShiftIn(<<>>, [i \in 1..Len(cards) |-> 1 + CardToU8(cards[i])])
ObservationToI64(o) ==
    LET cards == CardsOf(o.public) \o CardsOf(o.pocket)
    IN  FoldShiftIn(<<>>, [i \in 1..Len(cards) |-> 1 + CardToU8(cards[i])])

\* impl From<i64> for Observation, the loop: the hands after the bytes from i on
RECURSIVE Unpacked(_, _, _, _)
Unpacked(bits, i, pocket, public) ==
    IF bits = <<>> THEN <<pocket, public>>
    ELSE LET card == HandOfCard(U8ToCard(Head(bits) - 1))
         IN  IF i < 2
             THEN Unpacked(Tail(bits), i + 1, Add(pocket, card), public)
             ELSE Unpacked(Tail(bits), i + 1, pocket, Add(public, card))

\* impl From<i64> for Observation: None when an assert fails
I64ToObservation(bits) ==
    LET hands == Unpacked(bits, 0, {}, {})
    IN  IF Size(hands[1]) = 2 /\ Size(hands[2]) <= 5
        THEN FromHands(hands[1], hands[2])
        ELSE None

\* Observation::street: None is unreachable!("no other sizes")
Street(o) ==
    CASE Size(o.public) = 0 -> Some("Pref")
      [] Size(o.public) = 3 -> Some("Flop")
      [] Size(o.public) = 4 -> Some("Turn")
      [] Size(o.public) = 5 -> Some("Rive")
      [] OTHER -> None

\* Street::n_observed and Street::n_revealed
NObserved(street) ==
    CASE street = "Pref" -> 0 [] street = "Flop" -> 3 [] street = "Turn" -> 4 [] street = "Rive" -> 5
NRevealed(street) ==
    CASE street = "Pref" -> 3 [] street = "Flop" -> 1 [] street = "Turn" -> 1 [] street = "Rive" -> 0

\* HandIterator::from((n, removed)): the hands of n cards outside removed
HandsOf(n, removed) == {h \in SUBSET (ObservationDeck \ removed) : Size(h) = n}

\* the hands given to From<(Hand, Hand)>
PocketInputs == {h \in SUBSET ObservationDeck : Size(h) \in 1..3}
PublicInputs == {h \in SUBSET ObservationDeck : Size(h) <= 6}
\* the integers given to From<i64>: up to four bytes of three cards
RawCards == {0, 1, 51}
RawInputs == UNION {[1..n -> {1 + CardToU8(c) : c \in RawCards}] : n \in 0..4}

InitObservation ==
    /\ ob = None /\ ob_bits = <<>> /\ ob_back = None /\ ob_pc = "start"
    /\ payouts = <<>> /\ next_score = U32_MAX /\ next_stake = U32_MIN
    /\ prev_stake = U32_MIN /\ sd_pc = "idle"
    /\ hand = {} /\ ranking = None /\ kickers = {} /\ ev_pc = "idle"
    /\ iterations = 0 /\ strategies = <<>> /\ pf_pc = "idle" /\ calls = 0
    /\ file = <<>> /\ cursor = 0 /\ loaded = <<>> /\ ps_pc = "idle"
    /\ ed_edges = <<>> /\ ed_codes = <<>> /\ ed_back = <<>> /\ ed_pc = "idle"
    /\ rv_index = <<>> /\ rv_senders = {} /\ rv_chan = <<>> /\ rv_received = <<>>
    /\ rv_buffer = <<>> /\ rv_batches = <<>> /\ rv_pc = "idle"
    /\ sx_mode = "" /\ sx_choices = <<>> /\ sx_head = <<>> /\ sx_ambient = 0
    /\ sx_out = <<>> /\ sx_again = <<>> /\ sx_pc = "idle"
    /\ km_points = <<>> /\ km_kmeans = <<>> /\ km_before = <<>> /\ km_t = 0 /\ km_i = 0
    /\ km_pc = "idle"
    /\ ik_iter = 0 /\ ik_k = 0 /\ ik_kmeans = <<>> /\ ik_out = <<>> /\ ik_pc = "idle"
    /\ rc_nodes = <<>> /\ rc_edges = <<>> /\ rc_strat = <<>> /\ rc_args = <<>> /\ rc_out = <<>> /\ rc_pc = "idle"
    /\ st_seat = <<>> /\ st_head = <<>> /\ st_build = "" /\ st_out = <<>> /\ st_pc = "idle"

\* Observation::from((pocket, public))
ObFromHands ==
    /\ ob_pc = "start"
    /\ \E pocket \in PocketInputs, public \in PublicInputs :
        ob' = FromHands(pocket, public)
    /\ ob_pc' = IF ob' = None THEN "assertion failed" ELSE "built"
    /\ UNCHANGED <<ob_bits, ob_back, sd_vars, ev_vars, pf_vars, ps_vars, ed_vars, rv_vars, sx_vars, km_vars, ik_vars, rc_vars, st_vars>>

\* Observation::from(street): public then pocket drawn from one deck
ObFromStreet ==
    /\ ob_pc = "start"
    /\ \E street \in {"Pref", "Flop", "Turn", "Rive"} :
        \E public \in HandsOf(NObserved(street), {}) :
            \E pocket \in HandsOf(2, public) :
                ob' = FromHands(pocket, public)
    /\ ob_pc' = "built"
    /\ UNCHANGED <<ob_bits, ob_back, sd_vars, ev_vars, pf_vars, ps_vars, ed_vars, rv_vars, sx_vars, km_vars, ik_vars, rc_vars, st_vars>>

\* Observation::from(bits) on an integer that no observation was encoded to
ObFromI64 ==
    /\ ob_pc = "start"
    /\ \E bits \in RawInputs : ob' = I64ToObservation(bits)
    /\ ob_pc' = IF ob' = None THEN "assertion failed" ELSE "built"
    /\ UNCHANGED <<ob_bits, ob_back, sd_vars, ev_vars, pf_vars, ps_vars, ed_vars, rv_vars, sx_vars, km_vars, ik_vars, rc_vars, st_vars>>

\* one item of Observation::children
ObChildren ==
    /\ ob_pc = "built"
    /\ IF Street(Unwrap(ob)) = None
       THEN ob_pc' = "unreachable: no other sizes" /\ UNCHANGED ob
       ELSE /\ NRevealed(Unwrap(Street(Unwrap(ob)))) > 0
            /\ \E reveal \in HandsOf(NRevealed(Unwrap(Street(Unwrap(ob)))),
                                    Add(Unwrap(ob).pocket, Unwrap(ob).public)) :
                 ob' = FromHands(Unwrap(ob).pocket, Add(Unwrap(ob).public, reveal))
            /\ ob_pc' = IF ob' = None THEN "assertion failed" ELSE "built"
    /\ UNCHANGED <<ob_bits, ob_back, sd_vars, ev_vars, pf_vars, ps_vars, ed_vars, rv_vars, sx_vars, km_vars, ik_vars, rc_vars, st_vars>>

\* i64::from(observation)
ObEncode ==
    /\ ob_pc = "built"
    /\ ob_bits' = ObservationToI64(Unwrap(ob))
    /\ ob_pc' = "encoded"
    /\ UNCHANGED <<ob, ob_back, sd_vars, ev_vars, pf_vars, ps_vars, ed_vars, rv_vars, sx_vars, km_vars, ik_vars, rc_vars, st_vars>>

\* Observation::from(bits) on the encoded observation
ObDecode ==
    /\ ob_pc = "encoded"
    /\ ob_back' = I64ToObservation(ob_bits)
    /\ ob_pc' = IF ob_back' = None THEN "assertion failed" ELSE "decoded"
    /\ UNCHANGED <<ob, ob_bits, sd_vars, ev_vars, pf_vars, ps_vars, ed_vars, rv_vars, sx_vars, km_vars, ik_vars, rc_vars, st_vars>>

NextObservation ==
    ObFromHands \/ ObFromStreet \/ ObFromI64 \/ ObChildren \/ ObEncode \/ ObDecode

SpecObservation == InitObservation /\ [][NextObservation]_vars

(***************************************************************************)
(*            RIVER SEEDING PIPELINE  (clustering/postgres.rs)             *)
(* Populator::river spawns one BatchUploader and TASKS Observers over one  *)
(* bounded channel.  An observation is its index in the list of river      *)
(* observations; the constants of the crate are scaled down, keeping       *)
(* TASKS a divisor of RIVERS and BATCH_MIN no divisor of RIVERS.           *)
(***************************************************************************)

\* const TASKS, RIVERS, RIVERS_PER_TASK
TASKS == 2
RIVERS == 6
RIVERS_PER_TASK == RIVERS \div TASKS
\* const BATCH_MIN, BATCH_MAX
BATCH_MIN == 4
BATCH_MAX == BATCH_MIN * 2
\* tokio::sync::mpsc::channel(BATCH_MIN)
Capacity == BATCH_MIN

\* Observation::all(Street::Rive): RIVERS distinct observations
Observations == [i \in 1..RIVERS |-> i - 1]
\* self.observations.get(index)
Get(index) == IF index < Len(Observations) THEN Some(Observations[index + 1]) ELSE None
\* Abstraction::from(observation): the equity bucket of a river
AbstractionFrom(observation) == observation % 2

\* Observer::run, beg and end of the shard
ShardBegOverlapping(shard) == shard * (RIVERS_PER_TASK - 1)
ShardBeg(shard) == shard * RIVERS_PER_TASK
ShardEnd(shard) == ShardBeg(shard) + RIVERS_PER_TASK

\* the Sender handles: one clone per Observer and the tx of the caller
Shards == 0..(TASKS - 1)
CallerTx == TASKS

\* BatchUploader::flush: one row per pair of the buffer in one COPY, and
\* self.buffer.clear()
Row(pair) == <<"Rive", pair[1], pair[2]>>
Copied(buffer) == [i \in 1..Len(buffer) |-> Row(buffer[i])]
ClearedNot(buffer) == buffer
Cleared(buffer) == <<>>

InitRiver ==
    /\ rv_index = [shard \in Shards |-> ShardBeg(shard)]
    /\ rv_senders = Shards \cup {CallerTx}
    /\ rv_chan = <<>> /\ rv_received = <<>>
    /\ rv_buffer = <<>> /\ rv_batches = <<>> /\ rv_pc = "recv"
    /\ payouts = <<>> /\ next_score = U32_MAX /\ next_stake = U32_MIN
    /\ prev_stake = U32_MIN /\ sd_pc = "idle"
    /\ hand = {} /\ ranking = None /\ kickers = {} /\ ev_pc = "idle"
    /\ iterations = 0 /\ strategies = <<>> /\ pf_pc = "idle" /\ calls = 0
    /\ file = <<>> /\ cursor = 0 /\ loaded = <<>> /\ ps_pc = "idle"
    /\ ob = <<>> /\ ob_bits = <<>> /\ ob_back = <<>> /\ ob_pc = "idle"
    /\ ed_edges = <<>> /\ ed_codes = <<>> /\ ed_back = <<>> /\ ed_pc = "idle"
    /\ sx_mode = "" /\ sx_choices = <<>> /\ sx_head = <<>> /\ sx_ambient = 0
    /\ sx_out = <<>> /\ sx_again = <<>> /\ sx_pc = "idle"
    /\ km_points = <<>> /\ km_kmeans = <<>> /\ km_before = <<>> /\ km_t = 0 /\ km_i = 0
    /\ km_pc = "idle"
    /\ ik_iter = 0 /\ ik_k = 0 /\ ik_kmeans = <<>> /\ ik_out = <<>> /\ ik_pc = "idle"
    /\ rc_nodes = <<>> /\ rc_edges = <<>> /\ rc_strat = <<>> /\ rc_args = <<>> /\ rc_out = <<>> /\ rc_pc = "idle"
    /\ st_seat = <<>> /\ st_head = <<>> /\ st_build = "" /\ st_out = <<>> /\ st_pc = "idle"

\* Observer::run, one turn of the loop: send the pair of the next index, or
\* return (and drop the Sender) at the end of the shard or of the list, or
\* panic "channel to be open" when the Receiver is gone
ObserverRun(shard) ==
    /\ shard \in rv_senders
    /\ IF rv_index[shard] < ShardEnd(shard) /\ Get(rv_index[shard]) # None
       THEN IF rv_pc = "done"
            THEN /\ rv_senders' = rv_senders \ {shard}
                 /\ UNCHANGED <<rv_index, rv_chan>>
            ELSE /\ Len(rv_chan) < Capacity
                 /\ rv_chan' = Append(rv_chan,
                        <<Unwrap(Get(rv_index[shard])),
                          AbstractionFrom(Unwrap(Get(rv_index[shard])))>>)
                 /\ rv_index' = [rv_index EXCEPT ![shard] = @ + 1]
                 /\ UNCHANGED rv_senders
       ELSE /\ rv_senders' = rv_senders \ {shard}
            /\ UNCHANGED <<rv_index, rv_chan>>
    /\ UNCHANGED <<rv_received, rv_buffer, rv_batches, rv_pc,
                   sd_vars, ev_vars, pf_vars, ps_vars, ob_vars, ed_vars, sx_vars, km_vars, ik_vars, rc_vars, st_vars>>

\* BatchUploader::run, one resumption of self.rx.recv().await: a pair is
\* pushed and the buffer flushed at BATCH_MIN; None, when the channel is
\* empty and no Sender is left, flushes what remains and returns
UploaderRecv ==
    /\ rv_pc = "recv"
    /\ IF rv_chan # <<>>
       THEN /\ rv_chan' = Tail(rv_chan)
            /\ rv_received' = Append(rv_received, Head(rv_chan))
            /\ IF Len(Append(rv_buffer, Head(rv_chan))) >= BATCH_MIN
               THEN /\ rv_batches' = Append(rv_batches, Copied(Append(rv_buffer, Head(rv_chan))))
                    /\ rv_buffer' = Cleared(Append(rv_buffer, Head(rv_chan)))
               ELSE /\ rv_buffer' = Append(rv_buffer, Head(rv_chan))
                    /\ UNCHANGED rv_batches
            /\ UNCHANGED rv_pc
       ELSE /\ rv_senders = {}
            /\ IF Len(rv_buffer) > 0
               THEN /\ rv_batches' = Append(rv_batches, Copied(rv_buffer))
                    /\ rv_buffer' = Cleared(rv_buffer)
               ELSE UNCHANGED <<rv_batches, rv_buffer>>
            /\ rv_pc' = "done"
            /\ UNCHANGED <<rv_chan, rv_received>>
    /\ UNCHANGED <<rv_index, rv_senders,
                   sd_vars, ev_vars, pf_vars, ps_vars, ob_vars, ed_vars, sx_vars, km_vars, ik_vars, rc_vars, st_vars>>

NextRiver == (\E shard \in Shards : ObserverRun(shard)) \/ UploaderRecv

SpecRiver == InitRiver /\ [][NextRiver]_vars

\* the tokio runtime polls every spawned task that can make progress
SpecRiverLive ==
    /\ InitRiver /\ [][NextRiver]_vars
    /\ \A shard \in Shards : WF_vars(ObserverRun(shard))
    /\ WF_vars(UploaderRecv)

(***************************************************************************)
(* BatchUploader::run against any senders: pairs arrive in any order and   *)
(* the senders are dropped at any time.                                    *)
(***************************************************************************)

\* the most pairs sent to the uploader
MaxPairs == 9
\* the pairs sent
PairInputs == {<<0, 0>>, <<1, 1>>}

InitUploader ==
    /\ rv_index = [shard \in Shards |-> 0]
    /\ rv_senders = Shards
    /\ rv_chan = <<>> /\ rv_received = <<>>
    /\ rv_buffer = <<>> /\ rv_batches = <<>> /\ rv_pc = "recv"
    /\ payouts = <<>> /\ next_score = U32_MAX /\ next_stake = U32_MIN
    /\ prev_stake = U32_MIN /\ sd_pc = "idle"
    /\ hand = {} /\ ranking = None /\ kickers = {} /\ ev_pc = "idle"
    /\ iterations = 0 /\ strategies = <<>> /\ pf_pc = "idle" /\ calls = 0
    /\ file = <<>> /\ cursor = 0 /\ loaded = <<>> /\ ps_pc = "idle"
    /\ ob = <<>> /\ ob_bits = <<>> /\ ob_back = <<>> /\ ob_pc = "idle"
    /\ ed_edges = <<>> /\ ed_codes = <<>> /\ ed_back = <<>> /\ ed_pc = "idle"
    /\ sx_mode = "" /\ sx_choices = <<>> /\ sx_head = <<>> /\ sx_ambient = 0
    /\ sx_out = <<>> /\ sx_again = <<>> /\ sx_pc = "idle"
    /\ km_points = <<>> /\ km_kmeans = <<>> /\ km_before = <<>> /\ km_t = 0 /\ km_i = 0
    /\ km_pc = "idle"
    /\ ik_iter = 0 /\ ik_k = 0 /\ ik_kmeans = <<>> /\ ik_out = <<>> /\ ik_pc = "idle"
    /\ rc_nodes = <<>> /\ rc_edges = <<>> /\ rc_strat = <<>> /\ rc_args = <<>> /\ rc_out = <<>> /\ rc_pc = "idle"
    /\ st_seat = <<>> /\ st_head = <<>> /\ st_build = "" /\ st_out = <<>> /\ st_pc = "idle"

\* tx.send(pair).await of some sender
SenderSend ==
    /\ rv_senders # {}
    /\ rv_pc = "recv"
    /\ Len(rv_chan) < Capacity
    /\ Len(rv_received) + Len(rv_chan) < MaxPairs
    /\ \E pair \in PairInputs : rv_chan' = Append(rv_chan, pair)
    /\ UNCHANGED <<rv_index, rv_senders, rv_received, rv_buffer, rv_batches, rv_pc,
                   sd_vars, ev_vars, pf_vars, ps_vars, ob_vars, ed_vars, sx_vars, km_vars, ik_vars, rc_vars, st_vars>>

\* drop(tx) of some sender
SenderDrop ==
    /\ \E sender \in rv_senders : rv_senders' = rv_senders \ {sender}
    /\ UNCHANGED <<rv_index, rv_chan, rv_received, rv_buffer, rv_batches, rv_pc,
                   sd_vars, ev_vars, pf_vars, ps_vars, ob_vars, ed_vars, sx_vars, km_vars, ik_vars, rc_vars, st_vars>>

NextUploader == SenderSend \/ SenderDrop \/ UploaderRecv

SpecUploader == InitUploader /\ [][NextUploader]_vars

(***************************************************************************)
(*           SAMPLING  (mccfr/profile.rs, the explore functions)           *)
(* A Branch is <<data, edge, index>>, a Node the record of its bucket and  *)
(* of the rest of its Game state.  None is an abort (assert, expect).      *)
(***************************************************************************)

\* Edge::is_chance, Edge::is_choice
is_chance(edge) == edge = "Draw"
is_choice(edge) == ~is_chance(edge)

\* Branch(data, edge, index) and Node
Branch(data, edge, index) == <<data, edge, index>>
Node(bucket, game) == [bucket |-> bucket, game |-> game]

\* Hash for usize and Bucket into a DefaultHasher::new(), and finish()
SeedSpace == 12
BucketHash(bucket) == IF bucket = "b1" THEN 1 ELSE 8
Hashed(eps, bucket) == (3 * eps + BucketHash(bucket)) % SeedSpace

\* Profile::rng: the seed of the SmallRng
RngOfGame(eps, node) == Hashed(eps + node.game, node.bucket)
Rng(eps, node) == Hashed(eps, node.bucket)

\* rng.gen_range(0..n) of a fresh SmallRng: None when the range is empty
GenRange(seed, n) == IF n = 0 THEN None ELSE Some(seed % n)

\* WeightedIndex::new(policy): None on no weight, a weight that is not >= 0
\* or a total of 0; else the running totals
RECURSIVE Cumulative(_)
Cumulative(weights) ==
    IF weights = <<>> THEN <<>>
    ELSE LET init == Cumulative(SubSeq(weights, 1, Len(weights) - 1))
         IN  Append(init, FAdd(IF init = <<>> THEN F(0) ELSE init[Len(init)],
                               weights[Len(weights)]))
WeightedIndex(weights) ==
    IF \/ weights = <<>>
       \/ \E i \in 1..Len(weights) : ~FLe(F(0), weights[i])
       \/ FSum(weights) = F(0)
    THEN None
    ELSE Some(Cumulative(weights))

\* WeightedIndex::sample(rng) of a fresh SmallRng: a point of [0, total) and
\* the first index whose running total is above it
Grain == 4
SampleFirst(cumulative, seed) == 0
Sample(cumulative, seed) ==
    LET total == cumulative[Len(cumulative)]
        point == FMul(total, Frac(seed % Grain, Grain))
    IN  (CHOOSE i \in 1..Len(cumulative) :
            /\ FLt(point, cumulative[i])
            /\ \A j \in 1..(i - 1) : ~FLt(point, cumulative[j])) - 1

\* Profile::explore_all
explore_all(choices) ==
    IF \A i \in 1..Len(choices) : is_choice(choices[i][2])
    THEN Some(choices)
    ELSE None

\* Profile::explore_any
explore_any(eps, choices, head) ==
    LET choice == GenRange(Rng(eps, head), Len(choices))
    IN  IF choice = None THEN None
        ELSE IF is_chance(choices[Unwrap(choice) + 1][2])
             THEN Some(<<choices[Unwrap(choice) + 1]>>)
             ELSE None

\* Profile::explore_one
explore_one(strat, eps, choices, head) ==
    IF \/ head.bucket \notin DOMAIN strat
       \/ \E i \in 1..Len(choices) : choices[i][2] \notin DOMAIN strat[head.bucket]
    THEN None
    ELSE LET weights == [i \in 1..Len(choices) |-> policy(strat, head.bucket, choices[i][2])]
             index == WeightedIndex(weights)
         IN  IF index = None THEN None
             ELSE LET choice == Sample(Unwrap(index), Rng(eps, head))
                  IN  IF is_choice(choices[choice + 1][2])
                      THEN Some(<<choices[choice + 1]>>)
                      ELSE None

\* the edges, policies and profiles sampled from
SampleEdges == {"Draw", "Fold", "Call"}
SamplePolicies == {F(0), F(1), F(3)}
SampleStrategies ==
    UNION {[es -> {Decision(p, F(0)) : p \in SamplePolicies}] : es \in SUBSET SampleEdges \ {{}}}
\* a profile with the same policies and other regrets
OtherRegrets(strat) ==
    [b \in DOMAIN strat |-> [e \in DOMAIN strat[b] |-> Decision(strat[b][e].policy, F(1))]]
\* the lists of branches given: one branch per child, in order
MaxBranches == 3
ChoicesInputs ==
    UNION {{[i \in 1..n |-> Branch(i, es[i], i)] : es \in [1..n -> SampleEdges]} : n \in 0..MaxBranches}
Games == {0, 1}
Ambients == {0, 1}

InitSample ==
    /\ strategies \in {[b \in {"b1"} |-> strategy] : strategy \in SampleStrategies}
    /\ iterations \in {0, 1}
    /\ pf_pc = "idle" /\ calls = 0
    /\ sx_mode = "" /\ sx_choices = <<>> /\ sx_head = <<>> /\ sx_ambient = 0
    /\ sx_out = <<>> /\ sx_again = <<>> /\ sx_pc = "ready"
    /\ payouts = <<>> /\ next_score = U32_MAX /\ next_stake = U32_MIN
    /\ prev_stake = U32_MIN /\ sd_pc = "idle"
    /\ hand = {} /\ ranking = None /\ kickers = {} /\ ev_pc = "idle"
    /\ file = <<>> /\ cursor = 0 /\ loaded = <<>> /\ ps_pc = "idle"
    /\ ob = <<>> /\ ob_bits = <<>> /\ ob_back = <<>> /\ ob_pc = "idle"
    /\ ed_edges = <<>> /\ ed_codes = <<>> /\ ed_back = <<>> /\ ed_pc = "idle"
    /\ rv_index = <<>> /\ rv_senders = {} /\ rv_chan = <<>> /\ rv_received = <<>>
    /\ rv_buffer = <<>> /\ rv_batches = <<>> /\ rv_pc = "idle"
    /\ km_points = <<>> /\ km_kmeans = <<>> /\ km_before = <<>> /\ km_t = 0 /\ km_i = 0
    /\ km_pc = "idle"
    /\ ik_iter = 0 /\ ik_k = 0 /\ ik_kmeans = <<>> /\ ik_out = <<>> /\ ik_pc = "idle"
    /\ rc_nodes = <<>> /\ rc_edges = <<>> /\ rc_strat = <<>> /\ rc_args = <<>> /\ rc_out = <<>> /\ rc_pc = "idle"
    /\ st_seat = <<>> /\ st_head = <<>> /\ st_build = "" /\ st_out = <<>> /\ st_pc = "idle"

\* self.explore_all(choices, head)
ExploreAll ==
    /\ sx_pc = "ready"
    /\ \E choices \in ChoicesInputs, bucket \in Buckets :
        /\ sx_choices' = choices
        /\ sx_head' = Node(bucket, 0)
        /\ sx_out' = explore_all(choices)
    /\ sx_mode' = "all"
    /\ sx_pc' = IF sx_out' = None THEN "aborted" ELSE "returned"
    /\ UNCHANGED <<sx_ambient, sx_again, sd_vars, ev_vars, pf_vars, ps_vars,
                   ob_vars, ed_vars, rv_vars, km_vars, ik_vars, rc_vars, st_vars>>

\* self.explore_any(choices, head)
ExploreAny ==
    /\ sx_pc = "ready"
    /\ \E choices \in ChoicesInputs, bucket \in Buckets :
        /\ sx_choices' = choices
        /\ sx_head' = Node(bucket, 0)
        /\ sx_out' = explore_any(epochs, choices, Node(bucket, 0))
    /\ sx_mode' = "any"
    /\ sx_pc' = IF sx_out' = None THEN "aborted" ELSE "returned"
    /\ UNCHANGED <<sx_ambient, sx_again, sd_vars, ev_vars, pf_vars, ps_vars,
                   ob_vars, ed_vars, rv_vars, km_vars, ik_vars, rc_vars, st_vars>>

\* self.explore_one(choices, head)
ExploreOne ==
    /\ sx_pc = "ready"
    /\ \E choices \in ChoicesInputs, bucket \in Buckets :
        /\ sx_choices' = choices
        /\ sx_head' = Node(bucket, 0)
        /\ sx_out' = explore_one(strategies, epochs, choices, Node(bucket, 0))
    /\ sx_mode' = "one"
    /\ sx_pc' = IF sx_out' = None THEN "aborted" ELSE "returned"
    /\ UNCHANGED <<sx_ambient, sx_again, sd_vars, ev_vars, pf_vars, ps_vars,
                   ob_vars, ed_vars, rv_vars, km_vars, ik_vars, rc_vars, st_vars>>

\* a second execution of the same mode on the same branches, at a head of the
\* same bucket in any Game state, at any time, under a profile of the same
\* epochs and policies
ExploreAgain ==
    /\ sx_pc = "returned"
    /\ sx_mode \in {"any", "one"}
    /\ \E game \in Games : sx_head' = Node(sx_head.bucket, game)
    /\ \E ambient \in Ambients : sx_ambient' = ambient
    /\ sx_again' = IF sx_mode = "any"
                   THEN explore_any(epochs, sx_choices, sx_head')
                   ELSE explore_one(OtherRegrets(strategies), epochs, sx_choices, sx_head')
    /\ sx_pc' = "replayed"
    /\ UNCHANGED <<sx_mode, sx_choices, sx_out, sd_vars, ev_vars, pf_vars, ps_vars,
                   ob_vars, ed_vars, rv_vars, km_vars, ik_vars, rc_vars, st_vars>>

NextSample == ExploreAll \/ ExploreAny \/ ExploreOne \/ ExploreAgain

SpecSample == InitSample /\ [][NextSample]_vars

(***************************************************************************)
(*                KMEANS CLUSTERING  (clustering/layer.rs)                 *)
(* A Histogram is <<n0, n1>>, the counts of two abstractions of the outer  *)
(* layer at distance 1.  A centroid is <<first, second>>, the pair of      *)
(* histograms of the kmeans map.  The iteration and centroid counts of the *)
(* crate are scaled down.                                                  *)
(***************************************************************************)

\* Histogram::default, Histogram::clear, Histogram::absorb
HistogramDefault == <<0, 0>>
HistogramCleared(h) == <<0, 0>>
Absorbed(h, data) == <<h[1] + data[1], h[2] + data[2]>>

\* Metric::emd of two histograms over two abstractions at distance 1: the
\* difference of the normalised weights
FAbsDiff(a, b) ==
    LET d == FAdd(a, FMul(F(-1), b))
    IN  IF FLt(d, F(0)) THEN FMul(F(-1), d) ELSE d
Emd(x, y) ==
    FAbsDiff(FDiv(F(x[2]), F(x[1] + x[2])), FDiv(F(y[2]), F(y[1] + y[2])))

\* f32::MAX, above every distance of the model
F32_MAX == F(1000)
\* Abstraction::default, no label of a centroid
AbstractionDefault == 0

\* Layer::t and Layer::k of the model
T == 2
K == 2
\* the number of observations of the layer
NPoints == 3

\* Layer::cluster, the inner loop over self.kmeans.iter_mut(): the nearest
\* centroid so far and its distance, after the centroids from label c on
RECURSIVE Nearest(_, _, _, _, _)
Nearest(kmeans, data, c, nearests, neighbor) ==
    IF c > K THEN neighbor
    ELSE IF c \in DOMAIN kmeans /\ FLt(Emd(data, kmeans[c][1]), nearests)
         THEN Nearest(kmeans, data, c + 1, Emd(data, kmeans[c][1]), c)
         ELSE Nearest(kmeans, data, c + 1, nearests, neighbor)
Neighbor(kmeans, data) == Nearest(kmeans, data, 1, F32_MAX, AbstractionDefault)

\* self.kmeans.get_mut(neighbor).expect(..).0.absorb(data)
AbsorbedAt(centroid, data) == <<Absorbed(centroid[1], data), centroid[2]>>

\* old.clear(); std::mem::swap(old, new)
Swapped(centroid) == <<centroid[2], HistogramCleared(centroid[1])>>

\* the histograms of the observations and the first histograms of inner_kmeans
HistogramInputs == {<<1, 0>>, <<0, 1>>, <<1, 1>>}

InitCluster ==
    /\ km_points \in [1..NPoints -> [data : HistogramInputs, last : {AbstractionDefault}]]
    /\ km_kmeans \in [1..K -> {<<mean, HistogramDefault>> : mean \in HistogramInputs}]
    /\ km_before = <<>> /\ km_t = 0 /\ km_i = 0
    /\ km_pc = "for"
    /\ payouts = <<>> /\ next_score = U32_MAX /\ next_stake = U32_MIN
    /\ prev_stake = U32_MIN /\ sd_pc = "idle"
    /\ hand = {} /\ ranking = None /\ kickers = {} /\ ev_pc = "idle"
    /\ iterations = 0 /\ strategies = <<>> /\ pf_pc = "idle" /\ calls = 0
    /\ file = <<>> /\ cursor = 0 /\ loaded = <<>> /\ ps_pc = "idle"
    /\ ob = <<>> /\ ob_bits = <<>> /\ ob_back = <<>> /\ ob_pc = "idle"
    /\ ed_edges = <<>> /\ ed_codes = <<>> /\ ed_back = <<>> /\ ed_pc = "idle"
    /\ rv_index = <<>> /\ rv_senders = {} /\ rv_chan = <<>> /\ rv_received = <<>>
    /\ rv_buffer = <<>> /\ rv_batches = <<>> /\ rv_pc = "idle"
    /\ sx_mode = "" /\ sx_choices = <<>> /\ sx_head = <<>> /\ sx_ambient = 0
    /\ sx_out = <<>> /\ sx_again = <<>> /\ sx_pc = "idle"
    /\ ik_iter = 0 /\ ik_k = 0 /\ ik_kmeans = <<>> /\ ik_out = <<>> /\ ik_pc = "idle"
    /\ rc_nodes = <<>> /\ rc_edges = <<>> /\ rc_strat = <<>> /\ rc_args = <<>> /\ rc_out = <<>> /\ rc_pc = "idle"
    /\ st_seat = <<>> /\ st_head = <<>> /\ st_build = "" /\ st_out = <<>> /\ st_pc = "idle"

\* for _ in 0..t: the head of the outer loop
ClusterFor ==
    /\ km_pc = "for"
    /\ IF km_t < T
       THEN /\ km_before' = [c \in DOMAIN km_kmeans |-> km_kmeans[c][1]]
            /\ km_i' = 1
            /\ km_pc' = "points"
       ELSE /\ km_pc' = "done"
            /\ UNCHANGED <<km_before, km_i>>
    /\ UNCHANGED <<km_points, km_kmeans, km_t,
                   sd_vars, ev_vars, pf_vars, ps_vars, ob_vars, ed_vars, rv_vars, sx_vars, ik_vars, rc_vars, st_vars>>

\* the body of the loop over self.points.iter_mut() for one observation
ClusterAssign ==
    /\ km_pc = "points"
    /\ km_i <= NPoints
    /\ IF Neighbor(km_kmeans, km_points[km_i].data) \notin DOMAIN km_kmeans
       THEN /\ km_pc' = "replaced default abstraction"
            /\ UNCHANGED <<km_points, km_kmeans, km_i>>
       ELSE /\ km_kmeans' = [km_kmeans EXCEPT
                                ![Neighbor(km_kmeans, km_points[km_i].data)] =
                                    AbsorbedAt(@, km_points[km_i].data)]
            /\ km_points' = [km_points EXCEPT
                                ![km_i].last = Neighbor(km_kmeans, km_points[km_i].data)]
            /\ km_i' = km_i + 1
            /\ UNCHANGED km_pc
    /\ UNCHANGED <<km_before, km_t,
                   sd_vars, ev_vars, pf_vars, ps_vars, ob_vars, ed_vars, rv_vars, sx_vars, ik_vars, rc_vars, st_vars>>

\* the loop over self.kmeans.iter_mut() that ends the iteration
ClusterSwap ==
    /\ km_pc = "points"
    /\ km_i > NPoints
    /\ km_kmeans' = [c \in DOMAIN km_kmeans |-> Swapped(km_kmeans[c])]
    /\ km_t' = km_t + 1
    /\ km_pc' = "for"
    /\ UNCHANGED <<km_points, km_before, km_i,
                   sd_vars, ev_vars, pf_vars, ps_vars, ob_vars, ed_vars, rv_vars, sx_vars, ik_vars, rc_vars, st_vars>>

NextCluster == ClusterFor \/ ClusterAssign \/ ClusterSwap

SpecCluster == InitCluster /\ [][NextCluster]_vars

(***************************************************************************)
(* Layer::inner_kmeans.  `histograms` is one iterator over the histograms  *)
(* of self.points, taken by mutable reference: what an adaptor consumes is *)
(* gone for the next one.  ik_iter counts the items it has yielded.        *)
(***************************************************************************)

\* the items left in the iterator
Remaining(points, yielded) ==
    [i \in 1..(Len(points) - yielded) |-> points[yielded + i].data]

\* the nearest-centroid distance of one histogram, squared
RECURSIVE MinEmd(_, _)
MinEmd(kmeans, histogram) ==
    IF Len(kmeans) = 1 THEN Emd(kmeans[1], histogram)
    ELSE FMin(Emd(kmeans[1], histogram), MinEmd(Tail(kmeans), histogram))
Distances(kmeans, histograms) ==
    [i \in 1..Len(histograms) |->
        FMul(MinEmd(kmeans, histograms[i]), MinEmd(kmeans, histograms[i]))]

\* Layer::k of the layers of the model, and Abstraction::random
KInputs == {1, 2}
RandomLabels == {1, 2, 3}

InitKmeans ==
    /\ km_points \in [1..NPoints -> [data : HistogramInputs, last : {AbstractionDefault}]]
    /\ ik_k \in KInputs
    /\ ik_iter = 0 /\ ik_kmeans = <<>> /\ ik_out = <<>> /\ ik_pc = "first"
    /\ km_kmeans = <<>> /\ km_before = <<>> /\ km_t = 0 /\ km_i = 0
    /\ km_pc = "idle"
    /\ payouts = <<>> /\ next_score = U32_MAX /\ next_stake = U32_MIN
    /\ prev_stake = U32_MIN /\ sd_pc = "idle"
    /\ hand = {} /\ ranking = None /\ kickers = {} /\ ev_pc = "idle"
    /\ iterations = 0 /\ strategies = <<>> /\ pf_pc = "idle" /\ calls = 0
    /\ file = <<>> /\ cursor = 0 /\ loaded = <<>> /\ ps_pc = "idle"
    /\ ob = <<>> /\ ob_bits = <<>> /\ ob_back = <<>> /\ ob_pc = "idle"
    /\ ed_edges = <<>> /\ ed_codes = <<>> /\ ed_back = <<>> /\ ed_pc = "idle"
    /\ rv_index = <<>> /\ rv_senders = {} /\ rv_chan = <<>> /\ rv_received = <<>>
    /\ rv_buffer = <<>> /\ rv_batches = <<>> /\ rv_pc = "idle"
    /\ sx_mode = "" /\ sx_choices = <<>> /\ sx_head = <<>> /\ sx_ambient = 0
    /\ sx_out = <<>> /\ sx_again = <<>> /\ sx_pc = "idle"
    /\ rc_nodes = <<>> /\ rc_edges = <<>> /\ rc_strat = <<>> /\ rc_args = <<>> /\ rc_out = <<>> /\ rc_pc = "idle"
    /\ st_seat = <<>> /\ st_head = <<>> /\ st_build = "" /\ st_out = <<>> /\ st_pc = "idle"

\* 1. histograms.collect::<Vec<_>>().choose(rng): the iterator is run to its
\* end and one of the collected histograms is taken
KmeansFirst ==
    /\ ik_pc = "first"
    /\ IF Remaining(km_points, ik_iter) = <<>>
       THEN /\ ik_pc' = "non-empty lower observations"
            /\ UNCHANGED ik_kmeans
       ELSE /\ \E i \in 1..Len(Remaining(km_points, ik_iter)) :
                 ik_kmeans' = <<Remaining(km_points, ik_iter)[i]>>
            /\ ik_pc' = "while"
    /\ ik_iter' = Len(km_points)
    /\ UNCHANGED <<ik_k, ik_out, sd_vars, ev_vars, pf_vars, ps_vars, ob_vars,
                   ed_vars, rv_vars, sx_vars, km_vars, rc_vars, st_vars>>

\* 2. one turn of `while kmeans.len() < self.k()`: histograms.map(..) runs
\* what is left of the iterator, WeightedIndex::new(distances) samples an
\* index of the list and histograms.nth(choice) takes from what is left
KmeansRound ==
    /\ ik_pc = "while"
    /\ Len(ik_kmeans) < ik_k
    /\ IF WeightedIndex(Distances(ik_kmeans, Remaining(km_points, ik_iter))) = None
       THEN /\ ik_pc' = "valid weights array"
            /\ UNCHANGED ik_kmeans
       ELSE \E choice \in {i - 1 : i \in {j \in 1..(Len(km_points) - ik_iter) :
                    FLt(F(0), Distances(ik_kmeans, Remaining(km_points, ik_iter))[j])}} :
                /\ ik_pc' = "shared index with lowers"
                /\ UNCHANGED ik_kmeans
    /\ ik_iter' = Len(km_points)
    /\ UNCHANGED <<ik_k, ik_out, sd_vars, ev_vars, pf_vars, ps_vars, ob_vars,
                   ed_vars, rv_vars, sx_vars, km_vars, rc_vars, st_vars>>

\* 3. the histograms chosen, each under a random Abstraction, collected into
\* a BTreeMap
KmeansCollect ==
    /\ ik_pc = "while"
    /\ Len(ik_kmeans) >= ik_k
    /\ \E labels \in [1..Len(ik_kmeans) -> RandomLabels] :
        ik_out' = [a \in {labels[i] : i \in 1..Len(ik_kmeans)} |->
                     <<ik_kmeans[CHOOSE i \in 1..Len(ik_kmeans) :
                            labels[i] = a /\ \A j \in (i + 1)..Len(ik_kmeans) : labels[j] # a],
                       HistogramDefault>>]
    /\ ik_pc' = "returned"
    /\ UNCHANGED <<ik_iter, ik_k, ik_kmeans, sd_vars, ev_vars, pf_vars, ps_vars, ob_vars,
                   ed_vars, rv_vars, sx_vars, km_vars, rc_vars, st_vars>>

NextKmeans == KmeansFirst \/ KmeansRound \/ KmeansCollect

SpecKmeans == InitKmeans /\ [][NextKmeans]_vars

(***************************************************************************)
(*                            REACH (profile.rs)                           *)
(* The reach functions walk from a Node to the root of the Tree through    *)
(* parent() and incoming(), so the model keeps one path of the Tree: its   *)
(* nodes from the root of the Tree down, nodes[i] = [player, bucket], and  *)
(* edges[i], the incoming Edge of nodes[i + 1].  None is an abort.         *)
(***************************************************************************)

\* Player::chance() and the two Ply::Choice players
Chance == "chance"
Players == {Chance, "p0", "p1"}

\* Profile::walker
walker(t) == IF t % 2 = 0 THEN "p0" ELSE "p1"

\* Node::parent and Node::incoming on the path
Parent(i) == IF i > 1 THEN Some(i - 1) ELSE None
Incoming(edges, i) == IF i > 1 THEN Some(edges[i - 1]) ELSE None

\* Profile::reach
reach(strat, head, edge) ==
    IF Chance = head.player THEN F(1) ELSE policy(strat, head.bucket, edge)

\* Profile::external_reach
RECURSIVE external_reach(_, _, _, _, _)
external_reach(strat, t, nodes, edges, node) ==
    IF IsSome(Parent(node)) /\ IsSome(Incoming(edges, node))
    THEN LET parent == Unwrap(Parent(node))
             incoming == Unwrap(Incoming(edges, node))
         IN  IF nodes[parent].player = walker(t)
             THEN external_reach(strat, t, nodes, edges, parent)
             ELSE FMul(external_reach(strat, t, nodes, edges, parent),
                       reach(strat, nodes[parent], incoming))
    ELSE F(1)

\* Profile::profiled_reach
RECURSIVE profiled_reach(_, _, _, _)
profiled_reach(strat, nodes, edges, node) ==
    IF IsSome(Parent(node)) /\ IsSome(Incoming(edges, node))
    THEN LET parent == Unwrap(Parent(node))
             incoming == Unwrap(Incoming(edges, node))
         IN  FMul(profiled_reach(strat, nodes, edges, parent),
                  reach(strat, nodes[parent], incoming))
    ELSE F(1)

\* Profile::relative_reach; None is unreachable!("tail must have parent")
RECURSIVE relative_reach(_, _, _, _, _)
relative_reach(strat, nodes, edges, root, leaf) ==
    IF nodes[root].bucket = nodes[leaf].bucket THEN Some(F(1))
    ELSE IF IsSome(Parent(leaf)) /\ IsSome(Incoming(edges, leaf))
    THEN LET parent == Unwrap(Parent(leaf))
             incoming == Unwrap(Incoming(edges, leaf))
             above == relative_reach(strat, nodes, edges, root, parent)
         IN  IF IsSome(above)
             THEN Some(FMul(Unwrap(above), reach(strat, nodes[parent], incoming)))
             ELSE None
    ELSE None

\* Profile::terminal_value; None is a failed assert!
terminal_value(strat, t, nodes, edges, head, leaf, reward) ==
    IF nodes[head].player # walker(t) THEN None
    ELSE IF leaf # Len(nodes) THEN None
    ELSE LET probability == relative_reach(strat, nodes, edges, head, leaf)
             conditional == external_reach(strat, t, nodes, edges, leaf)
         IN  IF IsSome(probability)
             THEN Some(FDiv(FMul(reward, Unwrap(probability)), conditional))
             ELSE None

\* the paths, strategies and payoffs of the model
MaxDepth == 3
ReachNodes == [player : Players, bucket : Buckets]
ReachWeights == {<<F(1), F(1)>>, <<F(1), F(0)>>, <<F(0), F(0)>>}
ReachStrategies ==
    {[b \in Buckets |-> [e \in Edges |->
        Decision(IF e = "Fold" THEN w[b][1] ELSE w[b][2], F(0))]] :
            w \in [Buckets -> ReachWeights]}
ReachRewards == {F(-1), F(0), F(2)}

InitReach ==
    /\ rc_nodes \in UNION {[1..n -> ReachNodes] : n \in 2..MaxDepth}
    /\ rc_edges \in [1..(Len(rc_nodes) - 1) -> Edges]
    /\ rc_strat \in ReachStrategies
    /\ iterations \in {0, 1}
    /\ rc_args = <<>> /\ rc_out = <<>> /\ rc_pc = "ready"
    /\ payouts = <<>> /\ next_score = U32_MAX /\ next_stake = U32_MIN
    /\ prev_stake = U32_MIN /\ sd_pc = "idle"
    /\ hand = {} /\ ranking = None /\ kickers = {} /\ ev_pc = "idle"
    /\ strategies = <<>> /\ pf_pc = "idle" /\ calls = 0
    /\ file = <<>> /\ cursor = 0 /\ loaded = <<>> /\ ps_pc = "idle"
    /\ ob = <<>> /\ ob_bits = <<>> /\ ob_back = <<>> /\ ob_pc = "idle"
    /\ ed_edges = <<>> /\ ed_codes = <<>> /\ ed_back = <<>> /\ ed_pc = "idle"
    /\ rv_index = <<>> /\ rv_senders = {} /\ rv_chan = <<>> /\ rv_received = <<>>
    /\ rv_buffer = <<>> /\ rv_batches = <<>> /\ rv_pc = "idle"
    /\ sx_mode = "" /\ sx_choices = <<>> /\ sx_head = <<>> /\ sx_ambient = 0
    /\ sx_out = <<>> /\ sx_again = <<>> /\ sx_pc = "idle"
    /\ km_points = <<>> /\ km_kmeans = <<>> /\ km_before = <<>> /\ km_t = 0
    /\ km_i = 0 /\ km_pc = "idle"
    /\ ik_iter = 0 /\ ik_k = 0 /\ ik_kmeans = <<>> /\ ik_out = <<>> /\ ik_pc = "idle"
    /\ st_seat = <<>> /\ st_head = <<>> /\ st_build = "" /\ st_out = <<>> /\ st_pc = "idle"

\* Profile::policy(bucket, edge)
ReachPolicy ==
    /\ rc_pc = "ready"
    /\ \E bucket \in Buckets, edge \in Edges :
            /\ rc_args' = <<"policy", bucket, edge>>
            /\ rc_out' = policy(rc_strat, bucket, edge)
    /\ rc_pc' = "returned"
    /\ UNCHANGED <<rc_nodes, rc_edges, rc_strat, sd_vars, ev_vars, pf_vars, ps_vars,
                   ob_vars, ed_vars, rv_vars, sx_vars, km_vars, ik_vars, st_vars>>

\* Profile::profiled_reach(node)
ReachProfiled ==
    /\ rc_pc = "ready"
    /\ \E node \in DOMAIN rc_nodes :
            /\ rc_args' = <<"profiled_reach", node>>
            /\ rc_out' = profiled_reach(rc_strat, rc_nodes, rc_edges, node)
    /\ rc_pc' = "returned"
    /\ UNCHANGED <<rc_nodes, rc_edges, rc_strat, sd_vars, ev_vars, pf_vars, ps_vars,
                   ob_vars, ed_vars, rv_vars, sx_vars, km_vars, ik_vars, st_vars>>

\* Profile::relative_reach(root, leaf), the leaf in the subtree of the root
ReachRelative ==
    /\ rc_pc = "ready"
    /\ \E leaf \in DOMAIN rc_nodes :
        \E root \in 1..leaf :
            \E out \in {relative_reach(rc_strat, rc_nodes, rc_edges, root, leaf)} :
                /\ rc_args' = <<"relative_reach", root, leaf>>
                /\ IF IsSome(out)
                   THEN rc_out' = Unwrap(out) /\ rc_pc' = "returned"
                   ELSE rc_out' = <<>> /\ rc_pc' = "tail must have parent"
    /\ UNCHANGED <<rc_nodes, rc_edges, rc_strat, sd_vars, ev_vars, pf_vars, ps_vars,
                   ob_vars, ed_vars, rv_vars, sx_vars, km_vars, ik_vars, st_vars>>

\* Profile::terminal_value(head, leaf), the leaf under the head
ReachTerminal ==
    /\ rc_pc = "ready"
    /\ \E leaf \in DOMAIN rc_nodes, reward \in ReachRewards :
        \E head \in 1..leaf :
            \E out \in {terminal_value(rc_strat, iterations, rc_nodes, rc_edges,
                                       head, leaf, reward)} :
                /\ rc_args' = <<"terminal_value", head, leaf, reward>>
                /\ IF IsSome(out)
                   THEN rc_out' = Unwrap(out) /\ rc_pc' = "returned"
                   ELSE rc_out' = <<>> /\ rc_pc' = "panicked"
    /\ UNCHANGED <<rc_nodes, rc_edges, rc_strat, sd_vars, ev_vars, pf_vars, ps_vars,
                   ob_vars, ed_vars, rv_vars, sx_vars, km_vars, ik_vars, st_vars>>

NextReach == ReachPolicy \/ ReachProfiled \/ ReachRelative \/ ReachTerminal

SpecReach == InitReach /\ [][NextReach]_vars

(***************************************************************************)
(*                        SEAT  (engine/seat.rs)                           *)
(* A Seat is its stack and stake, the Hand the table_stake() and           *)
(* table_stack() of its head.  A u32 subtraction below zero aborts in a    *)
(* build with overflow checks and wraps in a build without them.           *)
(***************************************************************************)

\* u32 arithmetic without overflow checks
WrappingSub(a, b) == IF a >= b THEN a - b ELSE U32_MAX - (b - a) + 1
WrappingAdd1(a) == IF a = U32_MAX THEN 0 ELSE a + 1

\* Action::Check(index) ... Action::Raise(index, amount)
Action(kind, amount) == [kind |-> kind, amount |-> amount]

\* Seat::to_call, to_shove, to_raise
to_call(seat, head) == WrappingSub(head.table_stake, seat.stake)
to_shove(seat, head) == MinOf(seat.stack, WrappingSub(head.table_stack, seat.stake))
to_raise(seat, head) == MinOf(WrappingSub(to_shove(seat, head), 1), 5)

\* Seat::can_check, can_shove, can_fold, can_raise, can_call
can_check(seat, head) == seat.stake = head.table_stake
can_shove(seat, head) == to_shove(seat, head) > 0
can_fold(seat, head) == to_call(seat, head) > 0
can_raise(seat, head) == to_shove(seat, head) > WrappingAdd1(to_call(seat, head))
can_call(seat, head) == can_fold(seat, head) /\ can_raise(seat, head)

\* the subtractions valid_actions evaluates that go below zero
Underflows(seat, head) ==
    seat.stake > head.table_stake \/ seat.stake > head.table_stack

\* Seat::valid_actions; None is the abort of a checked subtraction
valid_actions(seat, head, build) ==
    IF build = "debug" /\ Underflows(seat, head) THEN None
    ELSE Some((IF can_check(seat, head) THEN <<Action("Check", 0)>> ELSE <<>>)
           \o (IF can_fold(seat, head) THEN <<Action("Fold", 0)>> ELSE <<>>)
           \o (IF can_call(seat, head)
               THEN <<Action("Call", to_call(seat, head))>> ELSE <<>>)
           \o (IF can_shove(seat, head)
               THEN <<Action("Shove", to_shove(seat, head))>> ELSE <<>>)
           \o (IF can_raise(seat, head)
               THEN <<Action("Raise", to_raise(seat, head))>> ELSE <<>>))

\* the chip counts of the model
MaxChips == 7
Chips == 0..MaxChips
Builds == {"debug", "release"}

InitSeat ==
    /\ st_seat \in [stack : Chips, stake : Chips]
    /\ st_head \in [table_stake : Chips, table_stack : Chips]
    /\ st_build \in Builds
    /\ st_out = <<>> /\ st_pc = "ready"
    /\ payouts = <<>> /\ next_score = U32_MAX /\ next_stake = U32_MIN
    /\ prev_stake = U32_MIN /\ sd_pc = "idle"
    /\ hand = {} /\ ranking = None /\ kickers = {} /\ ev_pc = "idle"
    /\ iterations = 0 /\ strategies = <<>> /\ pf_pc = "idle" /\ calls = 0
    /\ file = <<>> /\ cursor = 0 /\ loaded = <<>> /\ ps_pc = "idle"
    /\ ob = <<>> /\ ob_bits = <<>> /\ ob_back = <<>> /\ ob_pc = "idle"
    /\ ed_edges = <<>> /\ ed_codes = <<>> /\ ed_back = <<>> /\ ed_pc = "idle"
    /\ rv_index = <<>> /\ rv_senders = {} /\ rv_chan = <<>> /\ rv_received = <<>>
    /\ rv_buffer = <<>> /\ rv_batches = <<>> /\ rv_pc = "idle"
    /\ sx_mode = "" /\ sx_choices = <<>> /\ sx_head = <<>> /\ sx_ambient = 0
    /\ sx_out = <<>> /\ sx_again = <<>> /\ sx_pc = "idle"
    /\ km_points = <<>> /\ km_kmeans = <<>> /\ km_before = <<>> /\ km_t = 0
    /\ km_i = 0 /\ km_pc = "idle"
    /\ ik_iter = 0 /\ ik_k = 0 /\ ik_kmeans = <<>> /\ ik_out = <<>> /\ ik_pc = "idle"
    /\ rc_nodes = <<>> /\ rc_edges = <<>> /\ rc_strat = <<>> /\ rc_args = <<>>
    /\ rc_out = <<>> /\ rc_pc = "idle"

\* Seat::valid_actions(hand)
ValidActions ==
    /\ st_pc = "ready"
    /\ \E out \in {valid_actions(st_seat, st_head, st_build)} :
            IF IsSome(out)
            THEN st_out' = Unwrap(out) /\ st_pc' = "returned"
            ELSE st_out' = <<>> /\ st_pc' = "attempt to subtract with overflow"
    /\ UNCHANGED <<st_seat, st_head, st_build, sd_vars, ev_vars, pf_vars, ps_vars,
                   ob_vars, ed_vars, rv_vars, sx_vars, km_vars, ik_vars, rc_vars>>

NextSeat == ValidActions

SpecSeat == InitSeat /\ [][NextSeat]_vars

(***************************************************************************)
(*                        CLAIMS ON THE SHOWDOWN                           *)
(***************************************************************************)

Rewards(ps) == [i \in Seats(ps) |-> ps[i].reward]
NonFolded(ps) == {i \in Seats(ps) : ps[i].status # "Folded"}

\* the precondition of C1: a non-folded payout exists, the total stake is
\* positive and the largest stake belongs to a non-folded payout
C1_Precondition ==
    /\ NonFolded(payouts) # {}
    /\ TotalStaked(payouts) > 0
    /\ \E i \in NonFolded(payouts) : \A j \in Seats(payouts) : payouts[j].staked <= payouts[i].staked

\* C1: on every payout list with a non-folded payout, a positive total stake
\* and the largest stake held by a non-folded payout, payouts() returns: it
\* never panics on an empty min/max (it moves on to the next lower score level
\* when the current one has no further stake level).
C1_PayoutsReturns == C1_Precondition => sd_pc # "panicked"

\* C2: chips are never created or lost. After every distribute step the total
\* reward equals the total of min(staked, next_stake), so it never exceeds the
\* total staked, and when payouts() returns, total reward = total staked.
C2_ChipsConserved ==
    /\ sd_pc # "distribute" =>
         TotalReward(payouts) =
           SumSeq([i \in Seats(payouts) |-> MinOf(payouts[i].staked, next_stake)])
    /\ TotalReward(payouts) <= TotalStaked(payouts)
    /\ sd_pc = "returned" => TotalReward(payouts) = TotalStaked(payouts)

\* a run that returned after more than one side pot and handed out odd chips
\* (all stakes are multiples of 5, so a reward that is not came from a remainder)
C2_Witness ==
    /\ sd_pc = "returned"
    /\ prev_stake > 0
    /\ \E i \in Seats(payouts) : payouts[i].reward % 5 # 0

C3_Input == <<Payout("Playing", 10, 9), Payout("Playing", 20, 9), Payout("Playing", 20, 8)>>
C3_IsInput == [i \in Seats(payouts) |-> [payouts[i] EXCEPT !.reward = 0]] = C3_Input

\* C3 as stated: payouts() on (10, score 9), (20, score 9), (20, score 8), all
\* Playing, returns the rewards 15, 25 and 10.
C3_RewardsAsClaimed ==
    (C3_IsInput /\ sd_pc = "returned") => Rewards(payouts) = <<15, 25, 10>>

\* C3 amended: on that input payouts() does not panic and returns the rewards
\* 15, 35 and 0 (the second seat wins the whole 20-chip side pot).
C3_RewardsOfCode ==
    C3_IsInput =>
        /\ sd_pc # "panicked"
        /\ sd_pc = "returned" => Rewards(payouts) = <<15, 35, 0>>

C3_Witness == C3_IsInput /\ sd_pc = "returned"

(***************************************************************************)
(*                         CLAIMS ON THE PROFILE                           *)
(***************************************************************************)

StoredPolicies(strat, b) ==
    LET es == InOrder(DOMAIN strat[b]) IN [i \in 1..Len(es) |-> strat[b][es[i]].policy]
ReadPolicies(strat, b) ==
    LET es == InOrder(DOMAIN strat[b]) IN [i \in 1..Len(es) |-> policy(strat, b, es[i])]

\* C7: with every increment in [REGRET_MIN, REGRET_MAX], every regret stored
\* in the profile lies in [REGRET_MIN, REGRET_MAX], also after repeated
\* updates of the same (bucket, edge).
C7_StoredRegretsClamped ==
    \A b \in DOMAIN strategies : \A e \in DOMAIN strategies[b] :
        /\ FLe(F(REGRET_MIN), strategies[b][e].regret)
        /\ FLe(strategies[b][e].regret, F(REGRET_MAX))

\* a step that is the call witness(node, children) on the unseen bucket b
C8_IsFirstWitness(b, children) ==
    /\ pf_pc = "ok"
    /\ b \notin DOMAIN strategies
    /\ iterations' = iterations /\ calls' = calls
    /\ strategies' = Witnessed(strategies, b, children)

\* C8: after witness(node, children) for a bucket not yet in strategies, with
\* n >= 1 children of pairwise distinct edges, the bucket's strategy holds
\* exactly the children's edges, each with regret 0 and stored policy 1/n;
\* policy(bucket, e) = 1/n and the policies of the bucket sum to 1.
C8_FirstWitnessUniform ==
    [][(iterations' = iterations /\ calls' = calls /\ strategies' # strategies) =>
        \A b \in Buckets, children \in ChildrenInputs :
            (/\ C8_IsFirstWitness(b, children)
             /\ Len(children) >= 1
             /\ Cardinality(ChildEdges(children)) = Len(children))
            => /\ pf_pc' = "ok"
               /\ b \in DOMAIN strategies'
               /\ DOMAIN strategies'[b] = ChildEdges(children)
               /\ \A e \in DOMAIN strategies'[b] :
                    /\ strategies'[b][e].regret = F(0)
                    /\ strategies'[b][e].policy = Frac(1, Len(children))
                    /\ policy(strategies', b, e) = Frac(1, Len(children))
               /\ FSum(ReadPolicies(strategies', b)) = F(1)]_vars

\* a bucket was witnessed with two distinct edges and nothing was updated since
C8_Witness ==
    /\ pf_pc = "ok" /\ calls = 0
    /\ \E b \in DOMAIN strategies :
        /\ Cardinality(DOMAIN strategies[b]) = 2
        /\ \A e \in DOMAIN strategies[b] : strategies[b][e] = Decision(Frac(1, 2), F(0))

\* C9: witness is idempotent. A step that changes neither counter is a
\* witness call; it never changes a stored Decision of a bucket already in
\* strategies, and when it aborts on a differing edge set it leaves the whole
\* profile unmodified.
C9_WitnessIdempotent ==
    [][(iterations' = iterations /\ calls' = calls) =>
        /\ \A b \in DOMAIN strategies :
             b \in DOMAIN strategies' /\ strategies'[b] = strategies[b]
        /\ pf_pc' = "assertion failed: observed == existing" =>
             strategies' = strategies /\ DOMAIN strategies # {}]_vars

\* a witness call on a bucket with an accumulated regret aborted
C9_Witness ==
    /\ pf_pc = "assertion failed: observed == existing"
    /\ \E b \in DOMAIN strategies : \E e \in DOMAIN strategies[b] :
         strategies[b][e].regret # F(0)

\* C10: for every witnessed bucket, after any sequence of policy_update calls
\* with non-negative increments that sum to 1, policy(bucket, e) is the stored
\* policy of e divided by the sum of the stored policies of the bucket (not by
\* the epoch count), lies in [0, 1], and sums to 1 over the bucket's edges.
C10_PolicyNormalisedOnRead ==
    pf_pc = "ok" =>
        \A b \in DOMAIN strategies :
            LET stored == StoredPolicies(strategies, b)
                shared == FSum(stored)
                read == ReadPolicies(strategies, b)
            IN  /\ FLt(F(0), shared)
                /\ \A i \in 1..Len(read) :
                     /\ read[i] = FDiv(stored[i], shared)
                     /\ FLe(F(0), read[i])
                     /\ FLe(read[i], F(1))
                /\ FSum(read) = F(1)

\* policy updates left a bucket with stored policies that differ and do not sum to 1
C10_Witness ==
    /\ pf_pc = "ok" /\ iterations >= 1 /\ calls >= 1
    /\ \E b \in DOMAIN strategies :
        /\ FSum(StoredPolicies(strategies, b)) # F(1)
        /\ \E e1, e2 \in DOMAIN strategies[b] :
             strategies[b][e1].policy # strategies[b][e2].policy

\* what an update of the edges of delta in bucket may do to the profile:
\* before and after are the strategies around the call, outcome its result
C11_UpdateFrame(before, after, outcome, bucket, delta) ==
    /\ DOMAIN after = DOMAIN before
    /\ \A b \in DOMAIN before : DOMAIN after[b] = DOMAIN before[b]
    /\ \A b \in DOMAIN before \ {bucket} : after[b] = before[b]
    /\ bucket \notin DOMAIN before =>
         outcome = "bucket been witnessed" /\ after = before
    /\ bucket \in DOMAIN before =>
         /\ ~(DOMAIN delta \subseteq DOMAIN before[bucket]) =>
              outcome = "action been witnessed"
         /\ \A e \in DOMAIN before[bucket] \ DOMAIN delta :
              after[bucket][e] = before[bucket][e]

\* every regret_update and every policy_update that RegretUpdate and
\* PolicyUpdate can take in the current state keeps the frame
C11_UpdatesKeepFrame ==
    \A bucket \in Buckets :
        /\ \A regrets \in RegretInputs :
             \A after \in {RegretsUpdated(strategies, bucket, regrets, epochs)} :
                C11_UpdateFrame(strategies, after,
                                UpdateOutcome(strategies, bucket, regrets),
                                bucket, regrets)
        /\ \A policys \in PolicyInputs :
             \A after \in {PolicysUpdated(strategies, bucket, policys, epochs)} :
                C11_UpdateFrame(strategies, after,
                                UpdateOutcome(strategies, bucket, policys),
                                bucket, policys)

\* C11: no step removes a bucket, and the edge set of a bucket is the one of
\* its first witness.  regret_update and policy_update insert and remove no
\* bucket and no edge (they abort on an unwitnessed bucket or edge), change
\* only Decisions of edges of their delta map inside the given bucket, and
\* leave every other bucket and the iterations counter unchanged.
C11_ProfileGrowsOnlyByWitness ==
    /\ [](pf_pc = "ok" /\ calls < MaxCalls => C11_UpdatesKeepFrame)
    /\ [][/\ DOMAIN strategies \subseteq DOMAIN strategies'
          /\ \A b \in DOMAIN strategies : DOMAIN strategies'[b] = DOMAIN strategies[b]
          /\ calls' # calls =>
               /\ DOMAIN strategies' = DOMAIN strategies
               /\ iterations' = iterations
               /\ Cardinality({b \in DOMAIN strategies : strategies'[b] # strategies[b]}) <= 1
               /\ pf_pc' = "bucket been witnessed" => strategies' = strategies]_vars

\* two buckets are witnessed, an update changed a Decision of one of them
\* and a later update aborted on an edge its bucket never witnessed
C11_Witness ==
    /\ pf_pc = "action been witnessed"
    /\ calls = MaxCalls
    /\ Cardinality(DOMAIN strategies) = 2
    /\ \E b \in DOMAIN strategies : \E e \in DOMAIN strategies[b] :
         strategies[b][e].regret # F(0)

(***************************************************************************)
(*                        CLAIMS ON THE EVALUATOR                          *)
(***************************************************************************)

\* poker's categories stated on the cards, independently of the detectors
CountOfRank(h, r) == Cardinality({c \in h : c \div 4 = r})
HasCard(h, r, s) == (4 * r + s) \in h
HoldsQuads(h) == \E r \in 0..12 : CountOfRank(h, r) = 4
HoldsFullHouse(h) ==
    \E t \in 0..12, p \in 0..12 : t # p /\ CountOfRank(h, t) >= 3 /\ CountOfRank(h, p) >= 2
HoldsFlush(h) == \E s \in 0..3 : Cardinality({c \in h : c % 4 = s}) >= 5
HoldsStraight(h) ==
    \/ \E hi \in 4..12 : \A k \in 0..4 : \E s \in 0..3 : HasCard(h, hi - k, s)
    \/ \A r \in {12, 0, 1, 2, 3} : \E s \in 0..3 : HasCard(h, r, s)
HoldsStraightFlush(h) ==
    \E s \in 0..3 :
        \/ \E hi \in 4..12 : \A k \in 0..4 : HasCard(h, hi - k, s)
        \/ \A r \in {12, 0, 1, 2, 3} : HasCard(h, r, s)

Category == IF IsSome(ranking) THEN Unwrap(ranking)[1] ELSE "none"

C4_Precondition ==
    /\ \E t \in 0..12, p \in 0..12 : t # p /\ CountOfRank(hand, t) = 3 /\ CountOfRank(hand, p) >= 2
    /\ ~HoldsQuads(hand)
    /\ ~HoldsStraightFlush(hand)
C4_Trips == SetMax({r \in 0..12 : CountOfRank(hand, r) = 3})
C4_Pair == SetMax({r \in 0..12 : r # C4_Trips /\ CountOfRank(hand, r) >= 2})

\* C4: a hand of 5 to 7 cards with three cards of one rank and two of another,
\* without quads or a straight flush, is ranked FullHouse(t, p), t the highest
\* rank held three times and p the highest other rank held at least twice,
\* whether p is below or above t.
C4_FullHouseAnyOrder ==
    (ev_pc = "done" /\ C4_Precondition) =>
        ranking = Some(<<"FullHouse", C4_Trips, C4_Pair>>)

\* the detectors tried in the order StraightFlush, Quads, FullHouse, Flush,
\* Straight, Trips, TwoPair, OnePair, HighCard
C5_StraightFlushDetector(h) ==
    LET suit == find_suit_of_flush(h)
        sf == IF IsSome(suit) THEN find_rank_of_straight_flush(h, Unwrap(suit)) ELSE None
    IN  IF IsSome(sf) THEN Some(<<"StraightFlush", Unwrap(sf)>>) ELSE None
C5_FlushDetector(h) ==
    LET suit == find_suit_of_flush(h)
    IN  IF IsSome(suit)
        THEN Some(<<"Flush", RankFromMask(RankMask(HandOf(h, Unwrap(suit))))>>)
        ELSE None
C5_RankingInSpecOrder(h) ==
    Unwrap(OrElse(C5_StraightFlushDetector(h),
           OrElse(find_4_oak(h),
           OrElse(find_3_oak_2_oak(h),
           OrElse(C5_FlushDetector(h),
           OrElse(find_straight(h),
           OrElse(find_3_oak(h),
           OrElse(find_2_oak_2_oak(h),
           OrElse(find_2_oak(h),
                  find_1_oak(h))))))))))

\* C5: find_ranking (flush and straight flush first) returns the ranking of
\* the detectors tried in the order StraightFlush, Quads, FullHouse, Flush,
\* Straight, ...; it never returns Flush for a hand holding quads or a full
\* house, returns StraightFlush only when five consecutive ranks (or the
\* wheel) lie in one suit, and returns Flush when the hand holds a flush and
\* a straight made of different cards.
C5_OrderEquivalent ==
    ev_pc = "done" =>
        /\ ranking = Some(C5_RankingInSpecOrder(hand))
        /\ Category = "Flush" => ~HoldsQuads(hand) /\ ~HoldsFullHouse(hand)
        /\ Category = "StraightFlush" => HoldsStraightFlush(hand)
        /\ (HoldsFlush(hand) /\ HoldsStraight(hand) /\ ~HoldsStraightFlush(hand))
               => Category = "Flush"

\* a hand holding a flush and a straight made of different cards was ranked
C5_Witness ==
    /\ ev_pc = "done"
    /\ HoldsFlush(hand) /\ HoldsStraight(hand) /\ ~HoldsStraightFlush(hand)
    /\ Category = "Flush"

\* the kickers C6 describes: the n highest ranks of the hand not named by r
C6_Expected(h, r) ==
    IF r[1] \notin {"HighCard", "OnePair", "ThreeOAK", "FourOAK", "TwoPair"} THEN {}
    ELSE LET n == CASE r[1] = "HighCard" -> 4
                    [] r[1] = "OnePair" -> 3
                    [] r[1] = "ThreeOAK" -> 2
                    [] r[1] \in {"FourOAK", "TwoPair"} -> 1
             named == IF r[1] = "TwoPair" THEN {r[2], r[3]} ELSE {r[2]}
             free == {x \in 0..12 : CountOfRank(h, x) > 0} \ named
         IN  {x \in free : Cardinality({y \in free : y > x}) < n}

\* C6: find_kickers(r) returns the n highest ranks of the hand that are not
\* among the ranks named by r (n = 4, 3, 2, 1, 1 for HighCard, OnePair,
\* ThreeOAK, FourOAK, TwoPair) and no kicker for the other categories; a rank
\* consumed by the ranking is never a kicker.
C6_KickersExcludeRanking ==
    ev_pc = "done" => kickers = C6_Expected(hand, Unwrap(ranking))

(***************************************************************************)
(*                       CLAIMS ON THE PERSISTENCE                         *)
(***************************************************************************)

\* every record read so far is a record of the saved profile
C12_NothingInvented ==
    \A b \in DOMAIN loaded.strategies :
        /\ b \in DOMAIN strategies
        /\ \A e \in DOMAIN loaded.strategies[b] :
             /\ e \in DOMAIN strategies[b]
             /\ loaded.strategies[b][e] = strategies[b][e]
             /\ F32Bytes(loaded.strategies[b][e].regret) = F32Bytes(strategies[b][e].regret)
             /\ F32Bytes(loaded.strategies[b][e].policy) = F32Bytes(strategies[b][e].policy)

\* C12: Profile::from(name) after p.save(name) yields strategies equal to
\* p.strategies: the same buckets, the same edges per bucket and the same
\* regret and policy bits for every (bucket, edge).  The reader never panics,
\* reads no record that was not saved, and stops at the 0xFFFF terminator,
\* which ends the file.
C12_SaveLoadRoundTrip ==
    /\ ps_pc # "panicked"
    /\ ps_pc = "reading" => C12_NothingInvented
    /\ ps_pc = "loaded" =>
         /\ loaded.strategies = strategies
         /\ C12_NothingInvented
         /\ cursor = Len(file)
         /\ SubSeq(file, cursor - 1, cursor) = BE(TRAILER, 2)

\* a profile of two buckets, one of them with a Raise edge and two other
\* edges, was saved and loaded
C12_Witness ==
    /\ ps_pc = "loaded"
    /\ Cardinality(DOMAIN loaded.strategies) = 2
    /\ \E b \in DOMAIN loaded.strategies :
         /\ DOMAIN loaded.strategies[b] = PersistedEdges
         /\ loaded.strategies[b][Raise(GRID[3])].regret = Frac(3, 2)
    /\ Len(file) > SEEK + 4 * (2 + RecordLen)


(***************************************************************************)
(*                     CLAIMS ON THE OBSERVATION                           *)
(***************************************************************************)

\* a pocket of two cards and a disjoint board of 0, 3, 4 or 5 cards
IsLegal(o) ==
    /\ Size(o.pocket) = 2
    /\ Size(o.public) \in {0, 3, 4, 5}
    /\ o.pocket \cap o.public = {}

LegalObservations ==
    {o \in {Observation(pocket, public) :
                pocket \in {h \in SUBSET ObservationDeck : Size(h) = 2},
                public \in SUBSET ObservationDeck} : IsLegal(o)}

\* C13: a legal observation (pocket of two cards, disjoint board of 0, 3, 4
\* or 5 cards) that is encoded to an i64 and decoded is the same observation,
\* pocket in the pocket and board in the board; decoding never fails on it, and
\* no other legal observation has the same integer.
C13_RoundTrip ==
    ob # None /\ IsLegal(Unwrap(ob)) =>
        /\ ob_pc # "assertion failed"
        /\ ob_pc \in {"encoded", "decoded"} =>
             \A other \in LegalObservations :
                 ObservationToI64(other) = ob_bits => other = Unwrap(ob)
        /\ ob_pc = "decoded" =>
             /\ ob_back = ob
             /\ Unwrap(ob_back).pocket = Unwrap(ob).pocket
             /\ Unwrap(ob_back).public = Unwrap(ob).public

C13_Witness ==
    /\ ob_pc = "decoded"
    /\ IsLegal(Unwrap(ob))
    /\ Size(Unwrap(ob).public) = 5
    /\ ob_back = ob

\* C15: every Observation that was constructed has a pocket of exactly two
\* cards, a board of 0, 3, 4 or 5 cards and no card in both.
C15_ConstructedIsLegal ==
    /\ ob # None => IsLegal(Unwrap(ob))
    /\ ob_back # None => IsLegal(Unwrap(ob_back))

(***************************************************************************)
(*                     CLAIMS ON THE EDGE ENCODINGS                        *)
(***************************************************************************)

\* C14: for the five unit edges and every Raise of an odds of the grid, the
\* u8 and the u64 code decode to the edge they encode, neither conversion
\* aborts, and two distinct edges have distinct codes in each encoding.
C14_EdgeRoundTrips ==
    ed_pc # "idle" /\ ed_edges[1] \in GridEdges /\ ed_edges[2] \in GridEdges =>
        /\ ed_pc \notin {"invalid odds value", "invalid edge encoding"}
        /\ ed_pc \in {"u8", "u64"} =>
             (ed_edges[1] # ed_edges[2] => ed_codes[1] # ed_codes[2])
        /\ ed_pc \in {"from u8", "from u64"} => ed_back = ed_edges

C14_Witness ==
    /\ ed_pc = "from u8"
    /\ ed_edges = <<Raise(GRID[1]), Shove>>
    /\ ed_codes = <<6, 5>>
    /\ ed_back = ed_edges

(***************************************************************************)
(*                 CLAIMS ON THE RIVER SEEDING PIPELINE                    *)
(***************************************************************************)

\* every Observer has returned
ObserversReturned == rv_senders \cap Shards = {}

\* C16: in Populator::river, once every Observer has sent its shard and
\* returned, the BatchUploader eventually sees the channel closed, flushes
\* what is left in its buffer and returns, so that the join of the tasks ends.
C16_UploaderTerminates ==
    (rv_pc = "recv" /\ ObserversReturned) ~> (rv_pc = "done" /\ rv_buffer = <<>>)

\* the rows of all batches, in the order written
RECURSIVE Flatten(_)
Flatten(batches) ==
    IF batches = <<>> THEN <<>> ELSE Head(batches) \o Flatten(Tail(batches))

\* C17: the rows of the COPY batches followed by the buffer are the pairs
\* received, each once and in the order received; a batch holds between 1 and
\* BATCH_MAX rows, every batch but the final one at least BATCH_MIN; the
\* buffer is empty after each flush and when the uploader has returned nothing
\* received is left out of the batches.
C17_BatchesPartitionStream ==
    /\ [](rv_pc # "idle" =>
            /\ Flatten(rv_batches) \o Copied(rv_buffer) = Copied(rv_received)
            /\ \A i \in 1..Len(rv_batches) :
                 /\ Len(rv_batches[i]) \in 1..BATCH_MAX
                 /\ i < Len(rv_batches) \/ rv_pc = "recv" => Len(rv_batches[i]) >= BATCH_MIN
            /\ rv_pc = "done" => rv_buffer = <<>> /\ rv_chan = <<>>)
    /\ [][rv_batches' # rv_batches =>
            /\ rv_buffer' = <<>>
            /\ Len(rv_batches') = Len(rv_batches) + 1
            /\ SubSeq(rv_batches', 1, Len(rv_batches)) = rv_batches]_vars

C17_Witness ==
    /\ rv_pc = "done"
    /\ Len(rv_batches) = 3
    /\ Len(rv_batches[3]) < BATCH_MIN
    /\ Len(rv_received) = MaxPairs

\* the stream the uploader batches: written, buffered and queued pairs
Stream == Flatten(rv_batches) \o Copied(rv_buffer) \o Copied(rv_chan)
\* the indices of one shard
ShardRange(shard) == {index \in 0..(RIVERS + RIVERS_PER_TASK) :
                        ShardBeg(shard) <= index /\ index < ShardEnd(shard)}

\* C18: the index ranges of the Observers are pairwise disjoint and cover
\* the list of river observations; in every interleaving no observation
\* occurs twice in the stream, every observation in it was sent by the
\* Observer that owns its index, and once all Observers have returned every
\* observation of the list occurs in it.
C18_ShardsPartitionRivers ==
    rv_pc # "idle" =>
        /\ \A s, t \in Shards : s # t => ShardRange(s) \cap ShardRange(t) = {}
        /\ {i - 1 : i \in 1..Len(Observations)} \subseteq UNION {ShardRange(s) : s \in Shards}
        /\ \A i, j \in 1..Len(Stream) : i # j => Stream[i][2] # Stream[j][2]
        /\ {Stream[i][2] : i \in 1..Len(Stream)} =
               UNION {{Observations[index + 1] : index \in ShardBeg(s)..(rv_index[s] - 1)} : s \in Shards}
        /\ ObserversReturned =>
               {Stream[i][2] : i \in 1..Len(Stream)} = {Observations[i] : i \in 1..Len(Observations)}

C18_Witness ==
    /\ ObserversReturned
    /\ Len(Stream) = RIVERS
    /\ \E i \in 1..(Len(Stream) - 1) : Stream[i][2] > Stream[i + 1][2]

(***************************************************************************)
(*                       CLAIMS ON THE SAMPLING                            *)
(***************************************************************************)

\* the branches of a list
BranchesOf(choices) == {choices[i] : i \in 1..Len(choices)}
\* a list with a chance edge and a choice edge
IsMixed(choices) ==
    /\ \E i \in 1..Len(choices) : is_chance(choices[i][2])
    /\ \E i \in 1..Len(choices) : is_choice(choices[i][2])

\* C19 (as amended): explore_all returns the list given, all choice edges, and
\* aborts on any chance edge; explore_one returns one branch of the list, a
\* choice edge of policy above 0 at the bucket of the head; explore_any
\* returns one branch of the list, a chance edge; the two abort when the
\* branch they sampled is of the other kind.
C19_ExploreReturnsGiven ==
    /\ sx_pc \in {"returned", "replayed"} =>
        /\ sx_mode = "all" =>
             /\ Unwrap(sx_out) = sx_choices
             /\ \A i \in 1..Len(sx_choices) : is_choice(sx_choices[i][2])
        /\ sx_mode = "one" =>
             /\ Len(Unwrap(sx_out)) = 1
             /\ Unwrap(sx_out)[1] \in BranchesOf(sx_choices)
             /\ is_choice(Unwrap(sx_out)[1][2])
             /\ FLt(F(0), policy(strategies, sx_head.bucket, Unwrap(sx_out)[1][2]))
        /\ sx_mode = "any" =>
             /\ Len(Unwrap(sx_out)) = 1
             /\ Unwrap(sx_out)[1] \in BranchesOf(sx_choices)
             /\ is_chance(Unwrap(sx_out)[1][2])
    /\ sx_pc = "aborted" /\ sx_mode = "all" =>
        \E i \in 1..Len(sx_choices) : is_chance(sx_choices[i][2])
    /\ sx_pc = "aborted" /\ sx_mode = "any" =>
        \/ sx_choices = <<>>
        \/ \E i \in 1..Len(sx_choices) : is_choice(sx_choices[i][2])

\* C19 (as claimed): as above, and a list that mixes chance and choice edges
\* always aborts.
C19_MixedListAborts ==
    /\ C19_ExploreReturnsGiven
    /\ sx_pc \in {"returned", "replayed"} => ~IsMixed(sx_choices)

C19_Witness ==
    /\ sx_pc = "returned"
    /\ sx_mode = "one"
    /\ IsMixed(sx_choices)
    /\ Len(sx_choices) = MaxBranches
    /\ is_choice(Unwrap(sx_out)[1][2])

FactorOfStored(t, stored) ==
    IF Phase(t) = "Discount" THEN DiscountRegret(t, stored) ELSE F(1)

\* C21: whenever regret_update is called on a witnessed bucket with witnessed
\* edges, the new stored regret of every edge of the increment is the stored
\* regret times the factor chosen by the sign of the stored regret, plus the
\* increment.
C21_DiscountByStoredSign ==
    pf_pc = "ok" /\ calls < MaxCalls =>
        \A bucket \in DOMAIN strategies :
            \A regrets \in {r \in RegretInputs : DOMAIN r \subseteq DOMAIN strategies[bucket]} :
                \A after \in {RegretsUpdated(strategies, bucket, regrets, epochs)} :
                    \A e \in DOMAIN regrets :
                        after[bucket][e].regret =
                            FAdd(FMul(strategies[bucket][e].regret,
                                      FactorOfStored(epochs, strategies[bucket][e].regret)),
                                 regrets[e])

(***************************************************************************)
(*                       CLAIMS ON THE CLUSTERING                          *)
(***************************************************************************)

\* the sum of the histograms of the points assigned to centroid c
RECURSIVE SumAssigned(_, _, _)
SumAssigned(points, c, n) ==
    IF n = 0 THEN HistogramDefault
    ELSE IF points[n].last = c
         THEN Absorbed(SumAssigned(points, c, n - 1), points[n].data)
         ELSE SumAssigned(points, c, n - 1)
\* an iteration has just ended
IterationEnded == km_pc = "for" /\ km_t > 0

\* C22: while the observations of an iteration are assigned the first
\* histogram of every centroid is the one the iteration began with, and when
\* the iteration has ended it is the sum of the histograms assigned to the
\* centroid in that iteration and the second histogram is empty.
C22_MeansFrozenThenSwapped ==
    /\ km_pc = "points" =>
        \A c \in DOMAIN km_kmeans : km_kmeans[c][1] = km_before[c]
    /\ IterationEnded =>
        \A c \in DOMAIN km_kmeans :
            /\ km_kmeans[c][1] = SumAssigned(km_points, c, NPoints)
            /\ km_kmeans[c][2] = HistogramDefault

\* C23: when an iteration has ended a centroid that no observation was
\* assigned to has the first histogram it began the iteration with, and the
\* labels of the centroids are those of the start.
C23_EmptyClusterKeepsMean ==
    /\ km_pc # "idle" => DOMAIN km_kmeans = 1..K
    /\ IterationEnded =>
        \A c \in DOMAIN km_kmeans :
            (\A n \in 1..NPoints : km_points[n].last # c) => km_kmeans[c][1] = km_before[c]

\* the layer has at least k observations, not all at distance 0 of each other
EnoughPoints ==
    /\ Len(km_points) >= ik_k
    /\ \E i, j \in 1..Len(km_points) : FLt(F(0), Emd(km_points[i].data, km_points[j].data))

\* C24: on a layer of at least k observations that are not all at distance 0
\* of each other, inner_kmeans does not abort, and what it returns is k
\* centroids, each the histogram of an observation of the layer.
C24_KmeansReturnsK ==
    ik_pc # "idle" /\ EnoughPoints =>
        /\ ik_pc \in {"first", "while", "returned"}
        /\ ik_pc = "returned" =>
            /\ Cardinality(DOMAIN ik_out) = ik_k
            /\ \A a \in DOMAIN ik_out :
                 \E i \in 1..Len(km_points) : ik_out[a][1] = km_points[i].data

(***************************************************************************)
(*                           CLAIMS ON REACH                               *)
(***************************************************************************)

\* the product of reach over the edges of the path from root to leaf
RECURSIVE PathProduct(_, _, _, _, _)
PathProduct(strat, nodes, edges, root, leaf) ==
    IF root >= leaf THEN F(1)
    ELSE FMul(PathProduct(strat, nodes, edges, root, leaf - 1),
              reach(strat, nodes[leaf - 1], edges[leaf - 1]))

\* C25: relative_reach(root, leaf) is the product of reach over exactly the
\* edges of the path from root to leaf, and profiled_reach(leaf) is
\* profiled_reach(root) * relative_reach(root, leaf), also when a node
\* between root and leaf carries the Bucket of root.
C25_RelativeReachIsPathProduct ==
    rc_pc = "returned" /\ rc_args[1] = "relative_reach" =>
        /\ rc_out = PathProduct(rc_strat, rc_nodes, rc_edges, rc_args[2], rc_args[3])
        /\ profiled_reach(rc_strat, rc_nodes, rc_edges, rc_args[3])
               = FMul(profiled_reach(rc_strat, rc_nodes, rc_edges, rc_args[2]), rc_out)

\* C26: when the divisor is 0 (external_reach(leaf) in terminal_value, the
\* sum of the stored policies of the bucket in policy) the operation
\* yields 0, never a NaN or an infinite value.
C26_ZeroDivisorYieldsZero ==
    /\ (rc_pc = "returned" /\ rc_args[1] = "terminal_value"
            /\ external_reach(rc_strat, iterations, rc_nodes, rc_edges, rc_args[3]) = F(0))
        => rc_out = F(0)
    /\ (rc_pc = "returned" /\ rc_args[1] = "policy"
            /\ \A e \in Edges : rc_strat[rc_args[2]][e].policy = F(0))
        => rc_out = F(0)

(***************************************************************************)
(*                  CLAIMS ON LOADING A DUMP                               *)
(***************************************************************************)

\* C27: loading a corrupt dump (a signature that is not the PGCOPY one, or a
\* record whose field count is neither 6 nor 0xFFFF) aborts; Profile::from
\* never returns a profile.
C27_CorruptDumpAborts == ps_pc # "loaded"

\* C28: the profile loaded after save has the epochs of the profile saved.
C28_EpochsSurvive == ps_pc = "loaded" => loaded.iterations = epochs

(***************************************************************************)
(*                CLAIMS ON THE STATES OF THE SHOWDOWN                     *)
(***************************************************************************)

\* the chips every payout has put in up to the stake level s
StakedUpTo(ps, s) == SumSeq([i \in Seats(ps) |-> MinOf(ps[i].staked, s)])

\* C29: in every state of payouts() a Folded payout has reward 0, the stake
\* levels increase (prev_stake < next_stake once next_stake() has stepped),
\* and a payout that has not folded holds at most the sum over the payouts
\* p of min(p.staked, its own stake).
C29_PayoutsInvariant ==
    /\ \A i \in Seats(payouts) : payouts[i].status = "Folded" => payouts[i].reward = 0
    /\ sd_pc \in {"distribute", "is_complete", "returned"} => prev_stake < next_stake
    /\ \A i \in Seats(payouts) :
            payouts[i].status # "Folded" =>
                payouts[i].reward <= StakedUpTo(payouts, payouts[i].staked)

\* payouts() returned after two stake levels, with a Folded payout at the
\* table and a payout that holds more than it staked
C29_Witness ==
    /\ sd_pc = "returned"
    /\ prev_stake > U32_MIN
    /\ \E i \in Seats(payouts) : payouts[i].status = "Folded"
    /\ \E i \in Seats(payouts) : payouts[i].reward > payouts[i].staked

(***************************************************************************)
(*                        CLAIMS ON THE SEAT                               *)
(***************************************************************************)

Offered(kind) == {i \in DOMAIN st_out : st_out[i].kind = kind}

\* C30: for a seat with stake <= table_stake, valid_actions offers exactly
\* one of Check and Fold (Check iff nothing is owed, Fold iff something is
\* owed), and the amount of every Raise it offers is above to_call and
\* below to_shove.
C30_ValidActions ==
    st_pc = "returned" /\ st_seat.stake <= st_head.table_stake =>
        /\ (Offered("Check") # {}) = ~(Offered("Fold") # {})
        /\ (Offered("Check") # {}) = (to_call(st_seat, st_head) = 0)
        /\ (Offered("Fold") # {}) = (to_call(st_seat, st_head) > 0)
        /\ \A i \in Offered("Raise") :
                /\ to_call(st_seat, st_head) < st_out[i].amount
                /\ st_out[i].amount < to_shove(st_seat, st_head)

====
